---- MODULE Spec2Model ----
(***************************************************************************)
(* The ingestion pipeline of splice-alt (backend/src/watcher.rs, db.rs,    *)
(* metadata.rs): files dropped into the watch directory, the bounded event *)
(* channel, and the single consumer task that pairs a binary with its      *)
(* metadata sibling, deduplicates by content hash, relocates the binary    *)
(* into the library and records it in the catalog.                         *)
(*                                                                         *)
(* The consumer is one process; every action below is one step of it (the  *)
(* code between two points where the rest of the world can be observed) or *)
(* one step of the environment (a file is dropped, a notification is       *)
(* delivered).  I/O operations that can fail have one action per outcome.  *)
(***************************************************************************)
EXTENDS Integers, Sequences, FiniteSets, TLC

\* ---------------------------------------------------------------- bounds
\* Steps of the environment (files dropped, further notifications) in one
\* behaviour.
MaxDrops == 3

\* ------------------------------------------------------ program constants
ChannelCap == 100
RetryAttempts == 3
PollMax == 10
PollMs == 500
HashAttempts == 3
InsertAttempts == 3
BackoffBaseMs == 1000
StepRetryMs == 1000
PauseEvery == 10
PauseMs == 30000

\* ------------------------------------------------------------ the domain
\* Base names of the files in the watch directory (kick_01, ...).
Names == {"a", "b"}
\* The library paths library_root/category/pack/filename that the metadata
\* documents of this model derive.
Targets == {"T1", "T2"}

\* A path of the watch directory: base name and extension.
Path(n, ext) == [name |-> n, ext |-> ext]

\* A file: its kind, the identity of its bytes and its length.
AbsentFile == [kind |-> "absent", data |-> 0, len |-> 0]
File(d, l) == [kind |-> "file", data |-> d, len |-> l]
\* The binaries a user drops: two complete contents and an empty file.
WavFiles == {File(1, 2), File(2, 2), File(0, 0)}
\* A copy that stopped short of the source's length.
Truncated(f) == File(f.data, f.len - 1)

\* SHA-256 of a file's bytes, as a number: injective on the files of the model.
calculate_file_hash(f) == 1000 + 10 * f.data + f.len
NoHash == 0

\* A metadata file: absent, empty, malformed, or a document that decodes.  A
\* document is kept by what the pipeline reads of it: the library path it
\* derives and the file_hash field it carries.
NoTarget == "none"
AbsentJson == [kind |-> "absent", len |-> 0, ok |-> FALSE, target |-> NoTarget, file_hash |-> NoHash]
EmptyJson == [kind |-> "file", len |-> 0, ok |-> FALSE, target |-> NoTarget, file_hash |-> NoHash]
MalformedJson == [kind |-> "file", len |-> 1, ok |-> FALSE, target |-> NoTarget, file_hash |-> NoHash]
Doc(t) == [kind |-> "file", len |-> 1, ok |-> TRUE, target |-> t, file_hash |-> calculate_file_hash(File(1, 2))]
JsonFiles == {Doc(t) : t \in Targets} \cup {MalformedJson, EmptyJson}

NoEvent == [kind |-> "none", paths |-> <<>>]

\* No error: the value of an Ok result.
NoError == "none"

\* The count of the events given up is a history of the error-storm
\* specification; the other specifications do not record it.
Untracked == -1
CountFailure(n) == IF n = Untracked THEN Untracked ELSE n + 1

VARIABLES
    wavs,           \* watch directory: base name -> binary file
    jsons,          \* watch directory: base name -> metadata file
    library,        \* library tree: target path -> file
    catalog,        \* the samples table: a set of rows
    queue,          \* the mpsc channel between the notify callback and the consumer
    pc,             \* where the consumer task is
    event,          \* the event being handled
    path_idx,       \* handle_event: index of the path being processed
    attempt,        \* handle_event_with_retry: attempt
    poll_attempts,  \* process_wav_file: attempts
    hash_attempt,   \* calculate_file_hash_with_retry: attempt
    insert_attempt, \* insert_sample_with_retry: attempt
    metadata,       \* process_sample_pair: metadata
    file_hash,      \* process_sample_pair: file_hash
    source_size,    \* move_file_safely: source_size
    error_count,    \* FileWatcher.error_count
    slept,          \* milliseconds the last consumer step slept (0: it did not)
    outcome,        \* how the last processed path ended
    last_error,     \* the error the last step returned or logged (NoError: none)
    drops,          \* history: steps the environment has taken
    moves,          \* history: relocations of the binary of a name since it was dropped
    inserts,        \* history: catalog inserts for the binary of a name since it was dropped
    relocated,      \* history: the handling of this event has relocated the binary
    json_first,     \* history: the metadata's event was handled before the binary existed
    failures,       \* history: events given up since start (Untracked: not recorded)
    pending,        \* the event the notify callback is blocked on in blocking_send
    pack_name,      \* get_library_path: sample_meta_data.pack.name
    filename,       \* get_library_path: sample_meta_data.filename
    tags,           \* get_library_path: sample_meta_data.tags
    safe_pack_name, \* get_library_path: safe_pack_name
    resanitized,    \* sanitize_filename applied to safe_pack_name
    library_path,   \* the path get_library_path returned
    done,           \* which of the computations have run
    category,       \* the label of the category get_category returned
    dirs,           \* what is at the path of each directory the watcher needs
    pid_file,       \* the PID the PID file holds (NoPid: there is no file)
    daemons,        \* the PIDs of the daemon processes that are running
    start_pc,       \* the position of each `start` invocation in start_daemon
    child,          \* start_daemon: the PID of the child it spawned
    seen            \* start_daemon: the PID read_pid_file returned

fsVars == <<wavs, jsons, library, catalog>>
envVars == <<queue, drops, pending>>
pathVars == <<pack_name, filename, tags, safe_pack_name, resanitized, library_path, done, category>>
startVars == <<pid_file, daemons, start_pc, child, seen>>
histVars == <<moves, inserts, json_first>>
localVars == <<poll_attempts, hash_attempt, insert_attempt, metadata, file_hash, source_size>>
taskVars == <<pc, event, path_idx, attempt, error_count, slept, outcome, last_error, relocated>>
vars == <<wavs, jsons, library, catalog, queue, pc, event, path_idx, attempt,
          poll_attempts, hash_attempt, insert_attempt, metadata, file_hash,
          source_size, error_count, slept, outcome, last_error, drops, moves, inserts,
          relocated, json_first, failures, pending,
          pack_name, filename, tags, safe_pack_name, resanitized, library_path, done, category, dirs,
          pid_file, daemons, start_pc, child, seen>>

\* No category has been computed.
NoCategory == "none"

\* No document is being looked at by the path derivation.
NoDocument ==
    /\ pack_name = <<>>
    /\ filename = <<>>
    /\ tags = <<>>
    /\ safe_pack_name = <<>>
    /\ resanitized = <<>>
    /\ library_path = <<>>
    /\ done = {}
    /\ category = NoCategory

\* The directories FileWatcher::new ensures, and what a path can hold.
DirNames == {"watch_dir", "library_dir", "database_parent"}
DirStates == {"dir", "absent", "file"}
\* FileWatcher::new has returned Ok: the three directories exist.
SetUp == dirs = [d \in DirNames |-> "dir"]

\* The `start` invocations, and no PID.
Starters == {1, 2}
NoPid == 0
\* No `start` has been invoked and no daemon runs.
NoStart ==
    /\ pid_file = NoPid
    /\ daemons = {}
    /\ start_pc = [s \in Starters |-> "idle"]
    /\ child = [s \in Starters |-> NoPid]
    /\ seen = [s \in Starters |-> NoPid]

\* ------------------------------------------------------------- helpers
\* Path::exists
exists(f) == f.kind # "absent"

\* FileWatcher::validate_file: Ok iff the path exists, is a file and is not empty.
validate_file(f) == exists(f) /\ f.kind = "file" /\ f.len # 0

\* SampleMetadata::from_file: Ok iff the file's content decodes.
from_file(j) == j.ok

\* SampleMetadata::get_library_path
get_library_path(m) == m.target

\* db::sample_exists_by_hash
sample_exists_by_hash(cat, h) == \E r \in cat : r.file_hash = h

\* A lookup that never finds a row.
get_sample_by_hash_never_finds(cat, h) == {}

\* db::get_sample_by_hash: the rows with that hash (Some iff non-empty)
get_sample_by_hash(cat, h) == {r \in cat : r.file_hash = h}

\* From<&SampleMetadata> for SampleRecord
SampleRecord(m) == [file_path |-> "", file_hash |-> m.file_hash]

\* A record that keeps the file_hash of the metadata document.
record_keeps_metadata_hash == [SampleRecord(metadata) EXCEPT !.file_path = get_library_path(metadata)]

\* process_sample_pair: the record handed to insert_sample_with_retry
record == [SampleRecord(metadata) EXCEPT !.file_path = get_library_path(metadata),
                                          !.file_hash = file_hash]

\* An insert that looks at the path only: no check of the hash, no UNIQUE
\* constraint on file_hash.
insert_accepts_path_only(cat, r) == \A q \in cat : q.file_path # r.file_path

\* db::insert_sample: Ok iff the hash is not in the table and the INSERT does
\* not break the UNIQUE constraint of file_path (file_hash is UNIQUE too).
insert_accepts(cat, r) ==
    /\ ~sample_exists_by_hash(cat, r.file_hash)
    /\ \A q \in cat : q.file_path # r.file_path /\ q.file_hash # r.file_hash

\* The path being processed and its base name.
cur == event.paths[path_idx]
name == cur.name

\* The watcher starts on an empty watch directory, with the library and the
\* catalog a previous run left: empty, or one sample ingested.
Init ==
    /\ wavs = [n \in Names |-> AbsentFile]
    /\ jsons = [n \in Names |-> AbsentJson]
    /\ \/ /\ library = [t \in Targets |-> AbsentFile]
          /\ catalog = {}
       \/ /\ library = [t \in Targets |-> IF t = "T1" THEN File(1, 2) ELSE AbsentFile]
          /\ catalog = {[file_path |-> "T1", file_hash |-> calculate_file_hash(File(1, 2))]}
    /\ queue = <<>>
    /\ pc = "recv"
    /\ event = NoEvent
    /\ path_idx = 0
    /\ attempt = 0
    /\ poll_attempts = 0
    /\ hash_attempt = 0
    /\ insert_attempt = 0
    /\ metadata = AbsentJson
    /\ file_hash = NoHash
    /\ error_count = 0
    /\ slept = 0
    /\ outcome = "none"
    /\ last_error = NoError
    /\ drops = 0
    /\ source_size = 0
    /\ moves = [n \in Names |-> 0]
    /\ inserts = [n \in Names |-> 0]
    /\ relocated = FALSE
    /\ json_first = [n \in Names |-> FALSE]
    /\ failures = Untracked
    /\ pending = NoEvent
    /\ NoDocument
    /\ NoStart
    /\ SetUp

\* ------------------------------------------------------- the environment
\* The consumer reads the watch directory and the channel when it waits in
\* recv, when an attempt starts (after the backoff sleep) and in the pairing
\* poll.  A file dropped while it is anywhere else is seen at the next of these
\* points, so the environment's steps are taken there.
Observing == pc \in {"recv", "handle", "poll"}

\* A user drops a binary under a free name; notify delivers its Create event
\* (the callback's blocking_send needs room in the channel).
DropWav(n, f) ==
    /\ Observing
    /\ drops < MaxDrops
    /\ Len(queue) < ChannelCap
    /\ ~exists(wavs[n])
    /\ wavs' = [wavs EXCEPT ![n] = f]
    /\ queue' = Append(queue, [kind |-> "Create", paths |-> <<Path(n, "wav")>>])
    /\ drops' = drops + 1
    /\ pending' = pending
    /\ moves' = [moves EXCEPT ![n] = 0]
    /\ inserts' = [inserts EXCEPT ![n] = 0]
    /\ UNCHANGED json_first
    /\ slept' = 0
    /\ last_error' = NoError
    /\ outcome' = "none"
    /\ UNCHANGED <<jsons, library, catalog, localVars, pc, event, path_idx, attempt, relocated, error_count, failures, pathVars, startVars, dirs>>

\* A user drops a metadata file under a free name.
DropJson(n, j) ==
    /\ Observing
    /\ drops < MaxDrops
    /\ Len(queue) < ChannelCap
    /\ ~exists(jsons[n])
    /\ jsons' = [jsons EXCEPT ![n] = j]
    /\ queue' = Append(queue, [kind |-> "Create", paths |-> <<Path(n, "json")>>])
    /\ drops' = drops + 1
    /\ pending' = pending
    /\ slept' = 0
    /\ last_error' = NoError
    /\ outcome' = "none"
    /\ UNCHANGED <<wavs, library, catalog, histVars, localVars, pc, event, path_idx, attempt, relocated, error_count, failures, pathVars, startVars, dirs>>

\* notify delivers a further event for a file that is in the watch directory
\* (a Modify after the Create, an Access), or an event for a path with
\* another extension.
Notify(kind, n, ext) ==
    /\ Observing
    /\ drops < MaxDrops
    /\ Len(queue) < ChannelCap
    /\ \/ ext = "wav" /\ exists(wavs[n])
       \/ ext = "json" /\ exists(jsons[n])
       \/ ext = "tmp"
    /\ queue' = Append(queue, [kind |-> kind, paths |-> <<Path(n, ext)>>])
    /\ drops' = drops + 1
    /\ pending' = pending
    /\ slept' = 0
    /\ last_error' = NoError
    /\ outcome' = "none"
    /\ UNCHANGED <<fsVars, histVars, localVars, pc, event, path_idx, attempt, relocated, error_count, failures, pathVars, startVars, dirs>>

\* The further notifications of the model.
Notifications ==
    {<<"Modify", "a", "wav">>, <<"Modify", "a", "json">>,
     <<"Access", "a", "wav">>, <<"Modify", "a", "tmp">>}

\* The drops of the model: under "a" a complete binary and a document that
\* decodes; under "b" every binary and every metadata file.
WavDrops == {<<"a", File(1, 2)>>} \cup {<<"b", f>> : f \in WavFiles}
JsonDrops == {<<"a", Doc("T1")>>} \cup {<<"b", j>> : j \in JsonFiles}

Environment ==
    \/ \E x \in WavDrops : DropWav(x[1], x[2])
    \/ \E x \in JsonDrops : DropJson(x[1], x[2])
    \/ \E x \in Notifications : Notify(x[1], x[2], x[3])

\* -------------------------------------------------- how a handling ends
ResetLocals ==
    /\ poll_attempts' = 0
    /\ hash_attempt' = 0
    /\ insert_attempt' = 0
    /\ metadata' = AbsentJson
    /\ file_hash' = NoHash
    /\ source_size' = 0

\* A success that resets the counter instead of decrementing it.
ReturnOkResets(o) ==
    /\ error_count' = 0
    /\ failures' = failures
    /\ UNCHANGED <<pathVars, startVars, dirs>>
    /\ pc' = "recv"
    /\ event' = NoEvent
    /\ path_idx' = 0
    /\ attempt' = 0
    /\ slept' = 0
    /\ last_error' = NoError
    /\ outcome' = o
    /\ relocated' = FALSE
    /\ ResetLocals

\* handle_event returned Ok: handle_event_with_retry decrements the error
\* count (saturating) and returns; start_watching goes back to recv.
ReturnOk(o) ==
    /\ error_count' = IF error_count > 0 THEN error_count - 1 ELSE error_count
    /\ failures' = failures
    /\ UNCHANGED <<pathVars, startVars, dirs>>
    /\ pc' = "recv"
    /\ event' = NoEvent
    /\ path_idx' = 0
    /\ attempt' = 0
    /\ slept' = 0
    /\ last_error' = NoError
    /\ outcome' = o
    /\ relocated' = FALSE
    /\ ResetLocals

\* A path was processed without error: the loop of handle_event goes on to the
\* event's next path, or handle_event returns Ok.
NextPath(o) ==
    IF path_idx < Len(event.paths)
    THEN /\ pc' = "handle"
         /\ path_idx' = path_idx + 1
         /\ slept' = 0
         /\ last_error' = NoError
         /\ outcome' = o
         /\ relocated' = FALSE
         /\ ResetLocals
         /\ UNCHANGED <<event, attempt, error_count, failures, pathVars, startVars, dirs>>
    ELSE ReturnOk(o)

\* A retry loop that allows one attempt more.
ReturnErrOneMore ==
    /\ outcome' = "error"
    /\ ResetLocals
    /\ IF attempt <= RetryAttempts
       THEN /\ pc' = "handle"
            /\ path_idx' = 1
            /\ attempt' = attempt + 1
            /\ slept' = BackoffBaseMs * (2 ^ (attempt - 1))
            /\ UNCHANGED <<event, error_count, failures, pathVars, startVars, dirs, relocated>>
       ELSE /\ pc' = "recv"
            /\ event' = NoEvent
            /\ path_idx' = 0
            /\ attempt' = 0
            /\ error_count' = error_count + 1
            /\ failures' = CountFailure(failures)
            /\ UNCHANGED <<pathVars, startVars, dirs>>
            /\ relocated' = FALSE
            /\ slept' = IF (error_count + 1) % PauseEvery = 0 THEN PauseMs ELSE 0

\* A loop that decides on the pause before it counts the failure.
ReturnErrPauseBeforeCount ==
    /\ outcome' = "error"
    /\ ResetLocals
    /\ IF attempt < RetryAttempts
       THEN /\ pc' = "handle"
            /\ path_idx' = 1
            /\ attempt' = attempt + 1
            /\ slept' = BackoffBaseMs * (2 ^ (attempt - 1))
            /\ UNCHANGED <<event, error_count, failures, pathVars, startVars, dirs, relocated>>
       ELSE /\ pc' = "recv"
            /\ event' = NoEvent
            /\ path_idx' = 0
            /\ attempt' = 0
            /\ error_count' = error_count + 1
            /\ failures' = CountFailure(failures)
            /\ UNCHANGED <<pathVars, startVars, dirs>>
            /\ relocated' = FALSE
            /\ slept' = IF error_count % PauseEvery = 0 THEN PauseMs ELSE 0

\* An error propagated out of handle_event: handle_event_with_retry sleeps
\* 1000 * 2^(attempt-1) ms and tries again, or after the last attempt returns
\* the error to start_watching, which counts it and pauses on every 10th.
ReturnErr ==
    /\ outcome' = "error"
    /\ ResetLocals
    /\ IF attempt < RetryAttempts
       THEN /\ pc' = "handle"
            /\ path_idx' = 1
            /\ attempt' = attempt + 1
            /\ slept' = BackoffBaseMs * (2 ^ (attempt - 1))
            /\ UNCHANGED <<event, error_count, failures, pathVars, startVars, dirs, relocated>>
       ELSE /\ pc' = "recv"
            /\ event' = NoEvent
            /\ path_idx' = 0
            /\ attempt' = 0
            /\ error_count' = error_count + 1
            /\ failures' = CountFailure(failures)
            /\ UNCHANGED <<pathVars, startVars, dirs>>
            /\ relocated' = FALSE
            /\ slept' = IF (error_count + 1) % PauseEvery = 0 THEN PauseMs ELSE 0

\* A consumer that takes the next event while an attempt is about to start.
RecvWhileHandling ==
    /\ pc \in {"recv", "handle"}
    /\ queue # <<>>
    /\ event' = Head(queue)
    /\ queue' = Tail(queue)
    /\ pc' = "handle"
    /\ path_idx' = 1
    /\ attempt' = 1
    /\ slept' = 0
    /\ last_error' = NoError
    /\ outcome' = "none"
    /\ UNCHANGED <<fsVars, drops, pending, histVars, localVars, error_count, failures, pathVars, startVars, dirs, relocated>>

\* A consumer that takes the newest event of the channel.
RecvNewest ==
    /\ pc = "recv"
    /\ queue # <<>>
    /\ event' = queue[Len(queue)]
    /\ queue' = SubSeq(queue, 1, Len(queue) - 1)
    /\ pc' = "handle"
    /\ path_idx' = 1
    /\ attempt' = 1
    /\ slept' = 0
    /\ last_error' = NoError
    /\ outcome' = "none"
    /\ UNCHANGED <<fsVars, drops, pending, histVars, localVars, error_count, failures, pathVars, startVars, dirs, relocated>>

\* ------------------------------------------------------- the consumer
\* start_watching: rx.recv() yields the next event; handle_event_with_retry
\* starts its first attempt.
Recv ==
    /\ pc = "recv"
    /\ queue # <<>>
    /\ event' = Head(queue)
    /\ queue' = Tail(queue)
    /\ pc' = "handle"
    /\ path_idx' = 1
    /\ attempt' = 1
    /\ slept' = 0
    /\ last_error' = NoError
    /\ outcome' = "none"
    /\ UNCHANGED <<fsVars, drops, pending, histVars, localVars, error_count, failures, pathVars, startVars, dirs, relocated>>

\* handle_event: an event of another kind, or a path with another extension.
IgnoreEvent ==
    /\ pc = "handle"
    /\ \/ event.kind \notin {"Create", "Modify"}
       \/ cur.ext \notin {"wav", "json"}
    /\ IF event.kind \notin {"Create", "Modify"} THEN ReturnOk("ignored") ELSE NextPath("ignored")
    /\ UNCHANGED <<fsVars, envVars, histVars>>

\* process_wav_file: validate_file fails.
ProcessWavInvalid ==
    /\ pc = "handle"
    /\ event.kind \in {"Create", "Modify"}
    /\ cur.ext = "wav"
    /\ ~validate_file(wavs[name])
    /\ ReturnErr
    /\ last_error' = "invalid_file"
    /\ UNCHANGED <<fsVars, envVars, histVars>>

\* process_wav_file: the binary is valid; the wait for its sibling starts.
ProcessWavFile ==
    /\ pc = "handle"
    /\ event.kind \in {"Create", "Modify"}
    /\ cur.ext = "wav"
    /\ validate_file(wavs[name])
    /\ pc' = "poll"
    /\ poll_attempts' = 0
    /\ slept' = 0
    /\ last_error' = NoError
    /\ UNCHANGED <<fsVars, envVars, histVars, event, path_idx, attempt, relocated, error_count, failures, pathVars, startVars, dirs, outcome,
                   hash_attempt, insert_attempt, metadata, file_hash, source_size>>

\* A wait whose loop runs while attempts <= 10.
PollSleepOneMore ==
    /\ pc = "poll"
    /\ poll_attempts <= PollMax
    /\ ~exists(jsons[name])
    /\ poll_attempts' = poll_attempts + 1
    /\ slept' = PollMs
    /\ last_error' = NoError
    /\ UNCHANGED <<fsVars, envVars, histVars, pc, event, path_idx, attempt, relocated, error_count, failures, pathVars, startVars, dirs, outcome,
                   hash_attempt, insert_attempt, metadata, file_hash, source_size>>

\* process_wav_file: the sibling is absent and attempts < 10: sleep 500 ms.
PollSleep ==
    /\ pc = "poll"
    /\ poll_attempts < PollMax
    /\ ~exists(jsons[name])
    /\ poll_attempts' = poll_attempts + 1
    /\ slept' = PollMs
    /\ last_error' = NoError
    /\ UNCHANGED <<fsVars, envVars, histVars, pc, event, path_idx, attempt, relocated, error_count, failures, pathVars, startVars, dirs, outcome,
                   hash_attempt, insert_attempt, metadata, file_hash, source_size>>

\* A wait that gives up although the sibling is there.
PollFoundGivesUp ==
    /\ pc = "poll"
    /\ exists(jsons[name])
    /\ NextPath("orphaned")
    /\ UNCHANGED <<fsVars, envVars, histVars>>

\* process_wav_file: the sibling exists: process_sample_pair is called.
PollFound ==
    /\ pc = "poll"
    /\ exists(jsons[name])
    /\ pc' = "pair"
    /\ slept' = 0
    /\ last_error' = NoError
    /\ UNCHANGED <<fsVars, envVars, histVars, event, path_idx, attempt, relocated, error_count, failures, pathVars, startVars, dirs, outcome, localVars>>

\* An orphan handler that removes the binary.
PollOrphanedRemoves ==
    /\ pc = "poll"
    /\ ~(poll_attempts < PollMax)
    /\ ~exists(jsons[name])
    /\ wavs' = [wavs EXCEPT ![name] = AbsentFile]
    /\ NextPath("orphaned")
    /\ UNCHANGED <<jsons, library, catalog, envVars, histVars>>

\* process_wav_file: the window is exhausted: handle_orphaned_wav only logs.
PollOrphaned ==
    /\ pc = "poll"
    /\ ~(poll_attempts < PollMax)
    /\ ~exists(jsons[name])
    /\ NextPath("orphaned")
    /\ UNCHANGED <<fsVars, envVars, histVars>>

\* process_json_file: validate_file fails.
ProcessJsonInvalid ==
    /\ pc = "handle"
    /\ event.kind \in {"Create", "Modify"}
    /\ cur.ext = "json"
    /\ ~validate_file(jsons[name])
    /\ ReturnErr
    /\ last_error' = "invalid_file"
    /\ UNCHANGED <<fsVars, envVars, histVars>>

\* A metadata handler that never looks for the binary.
ProcessJsonFileNeverPairs ==
    /\ pc = "handle"
    /\ event.kind \in {"Create", "Modify"}
    /\ cur.ext = "json"
    /\ validate_file(jsons[name])
    /\ exists(wavs[name])
    /\ NextPath("waiting")
    /\ UNCHANGED <<fsVars, envVars, histVars>>

\* process_json_file: the binary is there: process_sample_pair is called.
ProcessJsonFile ==
    /\ pc = "handle"
    /\ event.kind \in {"Create", "Modify"}
    /\ cur.ext = "json"
    /\ validate_file(jsons[name])
    /\ exists(wavs[name])
    /\ pc' = "pair"
    /\ slept' = 0
    /\ last_error' = NoError
    /\ UNCHANGED <<fsVars, envVars, histVars, event, path_idx, attempt, relocated, error_count, failures, pathVars, startVars, dirs, outcome, localVars>>

\* process_json_file: the metadata arrived before the binary: nothing to do.
ProcessJsonWaiting ==
    /\ pc = "handle"
    /\ event.kind \in {"Create", "Modify"}
    /\ cur.ext = "json"
    /\ validate_file(jsons[name])
    /\ ~exists(wavs[name])
    /\ json_first' = [json_first EXCEPT ![name] = TRUE]
    /\ NextPath("waiting")
    /\ UNCHANGED <<fsVars, envVars, moves, inserts>>

\* process_sample_pair: a file fails validate_file, or the metadata does not decode.
PairInvalid ==
    /\ pc = "pair"
    /\ \/ ~validate_file(wavs[name])
       \/ ~validate_file(jsons[name])
       \/ ~from_file(jsons[name])
    /\ ReturnErr
    /\ last_error' = IF validate_file(wavs[name]) /\ validate_file(jsons[name]) THEN "parse" ELSE "invalid_file"
    /\ UNCHANGED <<fsVars, envVars, histVars>>

\* A pair handler that does not validate the binary.
PairParsedUnvalidated ==
    /\ pc = "pair"
    /\ validate_file(jsons[name])
    /\ from_file(jsons[name])
    /\ metadata' = jsons[name]
    /\ hash_attempt' = 1
    /\ pc' = "hash"
    /\ slept' = 0
    /\ last_error' = NoError
    /\ UNCHANGED <<fsVars, envVars, histVars, event, path_idx, attempt, relocated, error_count, failures, pathVars, startVars, dirs, outcome,
                   poll_attempts, insert_attempt, file_hash, source_size>>

\* process_sample_pair: both files are valid and the metadata decodes.
PairParsed ==
    /\ pc = "pair"
    /\ validate_file(wavs[name])
    /\ validate_file(jsons[name])
    /\ from_file(jsons[name])
    /\ metadata' = jsons[name]
    /\ hash_attempt' = 1
    /\ pc' = "hash"
    /\ slept' = 0
    /\ last_error' = NoError
    /\ UNCHANGED <<fsVars, envVars, histVars, event, path_idx, attempt, relocated, error_count, failures, pathVars, startVars, dirs, outcome,
                   poll_attempts, insert_attempt, file_hash, source_size>>

\* calculate_file_hash_with_retry: the file is read and hashed.
HashOk ==
    /\ pc = "hash"
    /\ file_hash' = calculate_file_hash(wavs[name])
    /\ pc' = "dedup"
    /\ slept' = 0
    /\ last_error' = NoError
    /\ UNCHANGED <<fsVars, envVars, histVars, event, path_idx, attempt, relocated, error_count, failures, pathVars, startVars, dirs, outcome,
                   poll_attempts, hash_attempt, insert_attempt, metadata, source_size>>

\* cleanup_duplicate_files, with the outcome of each remove_file.
cleanup_duplicate_files(wav_removed, json_removed) ==
    /\ wavs' = IF wav_removed THEN [wavs EXCEPT ![name] = AbsentFile] ELSE wavs
    /\ jsons' = IF json_removed THEN [jsons EXCEPT ![name] = AbsentJson] ELSE jsons
    /\ json_first' = IF json_removed THEN [json_first EXCEPT ![name] = FALSE] ELSE json_first

\* process_sample_pair: the hash is on record: both files are removed, Ok.
DedupExists ==
    /\ pc = "dedup"
    /\ get_sample_by_hash(catalog, file_hash) # {}
    /\ cleanup_duplicate_files(TRUE, TRUE)
    /\ NextPath("duplicate")
    /\ UNCHANGED <<library, catalog, envVars, moves, inserts>>

\* process_sample_pair: the hash is not on record: on to the relocation.
DedupAbsent ==
    /\ pc = "dedup"
    /\ get_sample_by_hash(catalog, file_hash) = {}
    /\ pc' = "move"
    /\ slept' = 0
    /\ last_error' = NoError
    /\ UNCHANGED <<fsVars, envVars, histVars, event, path_idx, attempt, relocated, error_count, failures, pathVars, startVars, dirs, outcome, localVars>>

\* A move that does not compare the sizes: a short copy is kept.
move_file_unverified(source, target) ==
    /\ source_size' = wavs[source].len
    /\ library' = [library EXCEPT ![target] = Truncated(wavs[source])]
    /\ wavs' = [wavs EXCEPT ![source] = AbsentFile]

\* move_file_safely: the copy is complete, the sizes agree, the source is removed.
move_file_safely(source, target) ==
    /\ source_size' = wavs[source].len
    /\ library' = [library EXCEPT ![target] = wavs[source]]
    /\ wavs' = [wavs EXCEPT ![source] = AbsentFile]

\* process_sample_pair: ensure_directory and move_file_safely succeed.
MoveOk ==
    /\ pc = "move"
    /\ move_file_safely(name, get_library_path(metadata))
    /\ moves' = [moves EXCEPT ![name] = moves[name] + 1]
    /\ relocated' = TRUE
    /\ insert_attempt' = 1
    /\ pc' = "insert"
    /\ slept' = 0
    /\ last_error' = NoError
    /\ UNCHANGED <<jsons, catalog, envVars, inserts, json_first, event, path_idx, attempt, error_count, failures, pathVars, startVars, dirs,
                   outcome, poll_attempts, hash_attempt, metadata, file_hash>>

\* insert_sample_with_retry: one attempt failed: sleep 1000 ms and try again,
\* or return the error after the third.
InsertRetry ==
    IF insert_attempt < InsertAttempts
    THEN /\ insert_attempt' = insert_attempt + 1
         /\ slept' = StepRetryMs
         /\ UNCHANGED <<pc, event, path_idx, attempt, relocated, error_count, failures, pathVars, startVars, dirs, outcome,
                        poll_attempts, hash_attempt, metadata, file_hash, source_size>>
    ELSE ReturnErr

\* An insert that replaces the rows in conflict with the new one.
InsertReplaces ==
    /\ pc = "insert"
    /\ catalog' = {r \in catalog : r.file_path # record.file_path /\ r.file_hash # record.file_hash} \cup {record}
    /\ inserts' = [inserts EXCEPT ![name] = inserts[name] + 1]
    /\ pc' = "cleanup"
    /\ slept' = 0
    /\ last_error' = NoError
    /\ UNCHANGED <<wavs, jsons, library, envVars, moves, json_first, event, path_idx, attempt, relocated, error_count, failures, pathVars, startVars, dirs, outcome,
                   localVars>>

\* insert_sample: the row is inserted.
InsertOk ==
    /\ pc = "insert"
    /\ insert_accepts(catalog, record)
    /\ catalog' = catalog \cup {record}
    /\ inserts' = [inserts EXCEPT ![name] = inserts[name] + 1]
    /\ pc' = "cleanup"
    /\ slept' = 0
    /\ last_error' = NoError
    /\ UNCHANGED <<wavs, jsons, library, envVars, moves, json_first, event, path_idx, attempt, relocated, error_count, failures, pathVars, startVars, dirs, outcome,
                   localVars>>

\* insert_sample: the hash is already in the table, or the INSERT breaks a
\* UNIQUE constraint.
InsertRejected ==
    /\ pc = "insert"
    /\ ~insert_accepts(catalog, record)
    /\ InsertRetry
    /\ last_error' = "insert_rejected"
    /\ UNCHANGED <<fsVars, envVars, histVars>>

\* cleanup_metadata_file, with the outcome of remove_file.
cleanup_metadata_file(removed) ==
    /\ jsons' = IF removed THEN [jsons EXCEPT ![name] = AbsentJson] ELSE jsons
    /\ json_first' = IF removed THEN [json_first EXCEPT ![name] = FALSE] ELSE json_first

\* process_sample_pair: the metadata file is removed; the unit is complete.
CleanupMetadata ==
    /\ pc = "cleanup"
    /\ cleanup_metadata_file(TRUE)
    /\ NextPath("ingested")
    /\ UNCHANGED <<wavs, library, catalog, envVars, moves, inserts>>

Consumer ==
    \/ Recv
    \/ IgnoreEvent
    \/ ProcessWavInvalid
    \/ ProcessWavFile
    \/ PollSleep
    \/ PollFound
    \/ PollOrphaned
    \/ ProcessJsonInvalid
    \/ ProcessJsonFile
    \/ ProcessJsonWaiting
    \/ PairInvalid
    \/ PairParsed
    \/ HashOk
    \/ DedupExists
    \/ DedupAbsent
    \/ MoveOk
    \/ InsertOk
    \/ InsertRejected
    \/ CleanupMetadata

\* ------------------------------------------------------ I/O failures
\* A retry loop of the hash that starts over after its third attempt.
HashFailStartsOver ==
    /\ pc = "hash"
    /\ hash_attempt' = IF hash_attempt < HashAttempts THEN hash_attempt + 1 ELSE 1
    /\ slept' = StepRetryMs
    /\ last_error' = "hash"
    /\ UNCHANGED <<fsVars, envVars, histVars, pc, event, path_idx, attempt, relocated, error_count, failures, pathVars, startVars, dirs, outcome,
                   poll_attempts, insert_attempt, metadata, file_hash, source_size>>

\* calculate_file_hash: fs::read fails: sleep 1000 ms and try again, or
\* return the error after the third attempt.
HashFail ==
    /\ pc = "hash"
    /\ IF hash_attempt < HashAttempts
       THEN /\ hash_attempt' = hash_attempt + 1
            /\ slept' = StepRetryMs
            /\ UNCHANGED <<pc, event, path_idx, attempt, relocated, error_count, failures, pathVars, startVars, dirs, outcome,
                           poll_attempts, insert_attempt, metadata, file_hash, source_size>>
       ELSE ReturnErr
    /\ last_error' = "hash"
    /\ UNCHANGED <<fsVars, envVars, histVars>>

\* SampleMetadata::from_file: read_to_string fails on a file that is there.
FromFileFail ==
    /\ pc = "pair"
    /\ validate_file(wavs[name])
    /\ validate_file(jsons[name])
    /\ ReturnErr
    /\ last_error' = "parse"
    /\ UNCHANGED <<fsVars, envVars, histVars>>

\* get_sample_by_hash returns Err: `if let Ok(Some(_))` does not match, and
\* process_sample_pair goes on to the relocation.
DedupLookupFail ==
    /\ pc = "dedup"
    /\ pc' = "move"
    /\ slept' = 0
    /\ last_error' = NoError
    /\ UNCHANGED <<fsVars, envVars, histVars, event, path_idx, attempt, relocated, error_count, failures, pathVars, startVars, dirs, outcome, localVars>>

\* cleanup_duplicate_files: a remove_file fails; it is logged, the result is Ok.
DedupExistsRemoveFail(wav_removed, json_removed) ==
    /\ pc = "dedup"
    /\ get_sample_by_hash(catalog, file_hash) # {}
    /\ ~(wav_removed /\ json_removed)
    /\ cleanup_duplicate_files(wav_removed, json_removed)
    /\ NextPath("duplicate")
    /\ UNCHANGED <<library, catalog, envVars, moves, inserts>>

\* ensure_directory fails, or fs::copy fails before it wrote anything.
CopyFail ==
    /\ pc = "move"
    /\ ReturnErr
    /\ last_error' = "copy"
    /\ UNCHANGED <<fsVars, envVars, histVars>>

\* fs::copy fails part-way: the target holds a truncated copy.
CopyFailPartial ==
    /\ pc = "move"
    /\ library' = [library EXCEPT ![get_library_path(metadata)] = Truncated(wavs[name])]
    /\ ReturnErr
    /\ last_error' = "copy"
    /\ UNCHANGED <<wavs, jsons, catalog, envVars, histVars>>

\* A move that removes the source before it has compared the sizes.
CopySizeMismatchSourceGone ==
    /\ pc = "move"
    /\ library' = [library EXCEPT ![get_library_path(metadata)] = AbsentFile]
    /\ wavs' = [wavs EXCEPT ![name] = AbsentFile]
    /\ ReturnErr
    /\ last_error' = "size_mismatch"
    /\ UNCHANGED <<jsons, catalog, envVars, histVars>>

\* move_file_safely: the sizes of source and target differ: the target is
\* removed and the move fails.
CopySizeMismatch ==
    /\ pc = "move"
    /\ library' = [library EXCEPT ![get_library_path(metadata)] = AbsentFile]
    /\ ReturnErr
    /\ last_error' = "size_mismatch"
    /\ UNCHANGED <<wavs, jsons, catalog, envVars, histVars>>

\* A move that removes the source although the copy could not be verified.
RemoveSourceFailSourceGone ==
    /\ pc = "move"
    /\ library' = [library EXCEPT ![get_library_path(metadata)] = Truncated(wavs[name])]
    /\ wavs' = [wavs EXCEPT ![name] = AbsentFile]
    /\ ReturnErr
    /\ last_error' = "remove_source"
    /\ UNCHANGED <<jsons, catalog, envVars, histVars>>

\* move_file_safely: the copy is verified but remove_file(source) fails.
RemoveSourceFail ==
    /\ pc = "move"
    /\ library' = [library EXCEPT ![get_library_path(metadata)] = wavs[name]]
    /\ ReturnErr
    /\ last_error' = "remove_source"
    /\ UNCHANGED <<wavs, jsons, catalog, envVars, histVars>>

\* insert_sample fails (the database cannot be opened or written).
InsertFail ==
    /\ pc = "insert"
    /\ InsertRetry
    /\ last_error' = "insert_io"
    /\ UNCHANGED <<fsVars, envVars, histVars>>

\* A cleanup that returns the error of remove_file.
CleanupMetadataFailEscalates ==
    /\ pc = "cleanup"
    /\ ReturnErr
    /\ last_error' = "cleanup"
    /\ UNCHANGED <<fsVars, envVars, histVars>>

\* cleanup_metadata_file: remove_file fails; it is logged, the result is Ok.
CleanupMetadataFail ==
    /\ pc = "cleanup"
    /\ cleanup_metadata_file(FALSE)
    /\ NextPath("ingested")
    /\ UNCHANGED <<wavs, library, catalog, envVars, moves, inserts>>

Failures ==
    \/ FromFileFail
    \/ HashFail
    \/ DedupLookupFail
    \/ \E wav_removed \in BOOLEAN, json_removed \in BOOLEAN :
          DedupExistsRemoveFail(wav_removed, json_removed)
    \/ CopyFail
    \/ CopyFailPartial
    \/ CopySizeMismatch
    \/ RemoveSourceFail
    \/ InsertFail
    \/ CleanupMetadataFail

\* ------------------------------------------------------ specifications
\* The pipeline with every outcome its I/O can have.
Next == Environment \/ Consumer \/ Failures
Spec == Init /\ [][Next]_vars

\* The pipeline with every outcome of its I/O, when the task of the consumer
\* keeps being scheduled: a step of the consumer that can be taken, with
\* whichever outcome, is eventually taken.
Fair == Init /\ [][Next]_vars /\ WF_vars(Consumer \/ Failures)

\* The pipeline when no I/O operation fails.
NextReliable == Environment \/ Consumer
Reliable == Init /\ [][NextReliable]_vars

\* The pipeline in an error storm: since start, nine events have been given up
\* and none has succeeded, and their files have been taken out of the watch
\* directory.  The count of the events given up is recorded.
InitStorm ==
    /\ wavs = [n \in Names |-> AbsentFile]
    /\ jsons = [n \in Names |-> AbsentJson]
    /\ \/ /\ library = [t \in Targets |-> AbsentFile]
          /\ catalog = {}
       \/ /\ library = [t \in Targets |-> IF t = "T1" THEN File(1, 2) ELSE AbsentFile]
          /\ catalog = {[file_path |-> "T1", file_hash |-> calculate_file_hash(File(1, 2))]}
    /\ queue = <<>>
    /\ pc = "recv"
    /\ event = NoEvent
    /\ path_idx = 0
    /\ attempt = 0
    /\ poll_attempts = 0
    /\ hash_attempt = 0
    /\ insert_attempt = 0
    /\ metadata = AbsentJson
    /\ file_hash = NoHash
    /\ error_count = PauseEvery - 1
    /\ slept = 0
    /\ outcome = "none"
    /\ last_error = NoError
    /\ drops = 0
    /\ source_size = 0
    /\ moves = [n \in Names |-> 0]
    /\ inserts = [n \in Names |-> 0]
    /\ relocated = FALSE
    /\ json_first = [n \in Names |-> FALSE]
    /\ failures = PauseEvery - 1
    /\ pending = NoEvent
    /\ NoDocument
    /\ NoStart
    /\ SetUp

Storm == InitStorm /\ [][NextReliable]_vars

\* ------------------------------------------------- the channel at capacity
\* The event notify delivers when a file of the watch directory is read.
BurstEvent == [kind |-> "Access", paths |-> <<Path("a", "wav")>>]

\* A callback whose send waits although the channel has room for one event.
SendBlockedEarly(kind, n, ext) ==
    /\ Observing
    /\ drops < MaxDrops
    /\ pending = NoEvent
    /\ Len(queue) >= ChannelCap - 1
    /\ \/ ext = "wav" /\ exists(wavs[n])
       \/ ext = "json" /\ exists(jsons[n])
       \/ ext = "tmp"
    /\ pending' = [kind |-> kind, paths |-> <<Path(n, ext)>>]
    /\ drops' = drops + 1
    /\ slept' = 0
    /\ last_error' = NoError
    /\ outcome' = "none"
    /\ UNCHANGED <<fsVars, queue, histVars, localVars, pc, event, path_idx, attempt, relocated, error_count, failures, pathVars, startVars, dirs>>

\* The notify callback: tx.blocking_send(event) finds the channel full and
\* blocks the watcher's thread, with the event in its hand.
SendBlocked(kind, n, ext) ==
    /\ Observing
    /\ drops < MaxDrops
    /\ pending = NoEvent
    /\ Len(queue) = ChannelCap
    /\ \/ ext = "wav" /\ exists(wavs[n])
       \/ ext = "json" /\ exists(jsons[n])
       \/ ext = "tmp"
    /\ pending' = [kind |-> kind, paths |-> <<Path(n, ext)>>]
    /\ drops' = drops + 1
    /\ slept' = 0
    /\ last_error' = NoError
    /\ outcome' = "none"
    /\ UNCHANGED <<fsVars, queue, histVars, localVars, pc, event, path_idx, attempt, relocated, error_count, failures, pathVars, startVars, dirs>>

\* The consumer has taken an event: the blocked send completes.
SendResume ==
    /\ Observing
    /\ pending # NoEvent
    /\ Len(queue) < ChannelCap
    /\ queue' = Append(queue, pending)
    /\ pending' = NoEvent
    /\ slept' = 0
    /\ last_error' = NoError
    /\ outcome' = "none"
    /\ UNCHANGED <<fsVars, drops, histVars, localVars, pc, event, path_idx, attempt, relocated, error_count, failures, pathVars, startVars, dirs>>

\* A burst of events: notify delivers further events while the channel is
\* full or has room for one.
BurstNotify ==
    /\ pending = NoEvent
    /\ Len(queue) >= ChannelCap - 1
    /\ Notify("Access", "a", "wav")

\* A binary without metadata has been dropped and is being read: its Create
\* event and the Access events behind it fill the channel before the
\* consumer takes the first of them.
InitBurst ==
    /\ wavs = [n \in Names |-> IF n = "a" THEN File(1, 2) ELSE AbsentFile]
    /\ jsons = [n \in Names |-> AbsentJson]
    /\ library = [t \in Targets |-> AbsentFile]
    /\ catalog = {}
    /\ queue = [i \in 1..ChannelCap |->
                  IF i = 1 THEN [kind |-> "Create", paths |-> <<Path("a", "wav")>>] ELSE BurstEvent]
    /\ pc = "recv"
    /\ event = NoEvent
    /\ path_idx = 0
    /\ attempt = 0
    /\ poll_attempts = 0
    /\ hash_attempt = 0
    /\ insert_attempt = 0
    /\ metadata = AbsentJson
    /\ file_hash = NoHash
    /\ error_count = 0
    /\ slept = 0
    /\ outcome = "none"
    /\ last_error = NoError
    /\ drops = 0
    /\ source_size = 0
    /\ moves = [n \in Names |-> 0]
    /\ inserts = [n \in Names |-> 0]
    /\ relocated = FALSE
    /\ json_first = [n \in Names |-> FALSE]
    /\ failures = Untracked
    /\ pending = NoEvent
    /\ NoDocument
    /\ NoStart
    /\ SetUp

\* The producer and the consumer around the full channel.  With no metadata
\* file and no other event in the watch directory, the steps of the consumer
\* are those of an orphan binary and of ignored events.
NextBurst ==
    \/ BurstNotify
    \/ SendBlocked("Access", "a", "wav")
    \/ SendResume
    \/ Recv
    \/ IgnoreEvent
    \/ ProcessWavFile
    \/ PollSleep
    \/ PollOrphaned
Burst == InitBurst /\ [][NextBurst]_vars

\* ------------------------------------------------- watch-stream errors
\* A callback that ends the consumer's loop on an error of the watch.
WatchErrorEndsLoop ==
    /\ Observing
    /\ drops < MaxDrops
    /\ pending = NoEvent
    /\ drops' = drops + 1
    /\ pc' = "ended"
    /\ slept' = 0
    /\ last_error' = "watch_error"
    /\ outcome' = "none"
    /\ UNCHANGED <<fsVars, queue, pending, histVars, localVars, event, path_idx, attempt, relocated,
                   error_count, failures, pathVars, startVars, dirs>>

\* The notify callback is called with Err(e): the error is printed, nothing
\* is sent to the channel, and the consumer is where it was.
WatchError ==
    /\ Observing
    /\ drops < MaxDrops
    /\ pending = NoEvent
    /\ drops' = drops + 1
    /\ slept' = 0
    /\ last_error' = "watch_error"
    /\ outcome' = "none"
    /\ UNCHANGED <<fsVars, queue, pending, histVars, localVars, pc, event, path_idx, attempt, relocated,
                   error_count, failures, pathVars, startVars, dirs>>

\* The pipeline with errors of the watch.  The consumer is a task of the
\* runtime: it takes its next step whenever it has one.
NextWatch == Environment \/ WatchError \/ Consumer
Watch == Init /\ [][NextWatch]_vars /\ WF_vars(Consumer)

\* ------------------------------------------------- events with several paths
\* notify delivers one event that carries two paths of the watch directory
\* (a rename inside it, or two changes reported together).
NotifyPaths(kind, p1, p2) ==
    /\ Observing
    /\ drops < MaxDrops
    /\ Len(queue) < ChannelCap
    /\ \A p \in {p1, p2} : IF p.ext = "wav" THEN exists(wavs[p.name]) ELSE exists(jsons[p.name])
    /\ queue' = Append(queue, [kind |-> kind, paths |-> <<p1, p2>>])
    /\ drops' = drops + 1
    /\ pending' = pending
    /\ slept' = 0
    /\ last_error' = NoError
    /\ outcome' = "none"
    /\ UNCHANGED <<fsVars, histVars, localVars, pc, event, path_idx, attempt, relocated, error_count, failures, pathVars, startVars, dirs>>

\* The events with two paths of the model: the two binaries, in either order.
PathPairs == {<<Path("b", "wav"), Path("a", "wav")>>, <<Path("a", "wav"), Path("b", "wav")>>}

NextBatch ==
    \/ Environment
    \/ \E x \in PathPairs : NotifyPaths("Modify", x[1], x[2])
    \/ Consumer
Batch == Init /\ [][NextBatch]_vars

\* ------------------------------------------------- shutdown
\* The places where the consumer task is suspended in an await: recv, the
\* backoff sleep and the pause (the attempt or the recv that follows them),
\* the pairing poll, and the sleep between two attempts of the insert.
AtAwait == Observing \/ (pc = "insert" /\ insert_attempt > 1)

\* run_daemon: ctrl_c() completes in the select!, run_daemon returns and the
\* runtime drops the watcher task at the await it is suspended in.
Sigint ==
    /\ AtAwait
    /\ pc' = "stopped"
    /\ UNCHANGED <<fsVars, envVars, histVars, localVars, event, path_idx, attempt, relocated,
                   error_count, failures, pathVars, startVars, dirs, slept, outcome, last_error>>

\* stop_daemon: SIGTERM (and SIGKILL after 5 s) is sent to the daemon, which
\* installs no handler for it: the process ends wherever it is.
Sigterm ==
    /\ pc # "stopped"
    /\ pc' = "stopped"
    /\ UNCHANGED <<fsVars, envVars, histVars, localVars, event, path_idx, attempt, relocated,
                   error_count, failures, pathVars, startVars, dirs, slept, outcome, last_error>>

\* The process ends inside fs::copy: the target holds a part of the file.
SigtermDuringCopy ==
    /\ pc = "move"
    /\ library' = [library EXCEPT ![get_library_path(metadata)] = Truncated(wavs[name])]
    /\ pc' = "stopped"
    /\ UNCHANGED <<wavs, jsons, catalog, envVars, histVars, localVars, event, path_idx, attempt, relocated,
                   error_count, failures, pathVars, startVars, dirs, slept, outcome, last_error>>

NextShutdown == Environment \/ Consumer \/ Sigint \/ Sigterm \/ SigtermDuringCopy
Shutdown == Init /\ [][NextShutdown]_vars

\* ------------------------------------------------- the library path
\* A string is a sequence of characters.  The characters of the model: those
\* sanitize_filename names, a control character that is whitespace (TAB), one
\* that is not (ESC), a space, a letter and a dot.
Chars == {"/", "\\", ":", "*", "?", "NUL", "\"", "<", ">", "|", "TAB", "ESC", " ", "a", "."}
MaxLen == 3
Strings == UNION {[1..n -> Chars] : n \in 0..MaxLen}

\* char::is_control and char::is_whitespace
is_control(c) == c \in {"NUL", "TAB", "ESC"}
is_whitespace(c) == c \in {" ", "TAB"}

\* A closure that leaves control characters as they are.
sanitize_char_keeps_control(c) ==
    IF c \in {"/", "\\"} THEN <<"-">>
    ELSE IF c = ":" THEN <<"-">>
    ELSE IF c \in {"*", "?", "NUL"} THEN <<>>
    ELSE IF c = "\"" THEN <<"'">>
    ELSE IF c \in {"<", ">"} THEN <<"-">>
    ELSE IF c = "|" THEN <<"-">>
    ELSE <<c>>

\* sanitize_filename: the closure of filter_map, arm by arm; <<>> is None.
sanitize_char(c) ==
    IF c \in {"/", "\\"} THEN <<"-">>
    ELSE IF c = ":" THEN <<"-">>
    ELSE IF c \in {"*", "?", "NUL"} THEN <<>>
    ELSE IF c = "\"" THEN <<"'">>
    ELSE IF c \in {"<", ">"} THEN <<"-">>
    ELSE IF c = "|" THEN <<"-">>
    ELSE IF is_control(c) THEN <<"_">>
    ELSE <<c>>

RECURSIVE filter_map(_)
filter_map(s) == IF s = <<>> THEN <<>> ELSE sanitize_char(Head(s)) \o filter_map(Tail(s))

\* str::trim
RECURSIVE trim_start(_)
trim_start(s) == IF s # <<>> /\ is_whitespace(Head(s)) THEN trim_start(Tail(s)) ELSE s
RECURSIVE trim_end(_)
trim_end(s) ==
    IF s # <<>> /\ is_whitespace(s[Len(s)]) THEN trim_end(SubSeq(s, 1, Len(s) - 1)) ELSE s
trim(s) == trim_end(trim_start(s))

\* A sanitizer that trims before it replaces and removes.
sanitize_filename_trims_first(s) == filter_map(trim(s))

\* metadata::sanitize_filename
sanitize_filename(s) == trim(filter_map(s))

\* The tags of the model and str::to_lowercase on them.
Tags == {"Kick", "KICK", "kick", "kicks", "Piano", "piano", "FX", "misc"}
to_lowercase(t) ==
    CASE t \in {"Kick", "KICK"} -> "kick"
      [] t = "Piano" -> "piano"
      [] t = "FX" -> "fx"
      [] OTHER -> t

\* map_tags_to_category: the arms of the match on a lower-cased tag, with the
\* label as_str gives the category; NoCategory for the arm `_ => continue`.
rule(t) ==
    CASE t \in {"kick", "kicks"} -> "Kick"
      [] t = "piano" -> "Piano"
      [] t \in {"fx", "sfx", "sound fx", "effects"} -> "Sound FX"
      [] OTHER -> NoCategory

\* map_tags_to_category: let tags_lower
tags_lower(ts) == [i \in DOMAIN ts |-> to_lowercase(ts[i])]

\* A loop in which a later match replaces an earlier one.
RECURSIVE last_match(_)
last_match(ts) ==
    IF ts = <<>> THEN "Unknown"
    ELSE IF last_match(Tail(ts)) # "Unknown" THEN last_match(Tail(ts))
    ELSE IF rule(Head(ts)) # NoCategory THEN rule(Head(ts))
    ELSE "Unknown"

\* map_tags_to_category: the loop over tags_lower returns at the first tag
\* that an arm matches; Unknown after the loop.
RECURSIVE first_match(_)
first_match(ts) ==
    IF ts = <<>> THEN "Unknown"
    ELSE IF rule(Head(ts)) # NoCategory THEN rule(Head(ts))
    ELSE first_match(Tail(ts))

\* metadata::map_tags_to_category, then BitwigCategory::as_str.
map_tags_to_category(ts) == first_match(tags_lower(ts))

\* A path is the sequence of its components; an absolute path starts with
\* the root directory.
RootDir == <<"/">>
library_base == <<RootDir, <<"lib">>>>

\* Path::components of a relative string: the pieces between separators.
RECURSIVE components(_, _)
components(s, piece) ==
    IF s = <<>> THEN (IF piece = <<>> THEN <<>> ELSE <<piece>>)
    ELSE IF Head(s) = "/"
         THEN (IF piece = <<>> THEN <<>> ELSE <<piece>>) \o components(Tail(s), <<>>)
         ELSE components(Tail(s), Append(piece, Head(s)))

\* PathBuf::join: an absolute argument replaces the path.
join(base, s) ==
    IF s # <<>> /\ Head(s) = "/" THEN <<RootDir>> \o components(s, <<>>)
    ELSE base \o components(s, <<>>)

\* SampleMetadata::get_library_path, from the three fields it reads.
library_path_of(base, ts, pack, file) ==
    join(join(join(base, <<map_tags_to_category(ts)>>), sanitize_filename(pack)), file)

\* The filenames and tag lists of the documents of the model.
PathInputs ==
    {<<<<"a", ".", "a">>, <<"Kick">>>>,
     <<<<"a">>, <<>>>>,
     <<<<"a", "*">>, <<"misc">>>>,
     <<<<"a", "/", "a">>, <<"misc", "piano">>>>,
     <<<<"/", "a">>, <<"piano", "Kick">>>>,
     <<<<"NUL">>, <<"misc">>>>}

\* The pack names that are combined with each of them.
PackNames == {<<"a">>, <<"a", " ", "a">>, <<"a", "/", "a">>, <<".", ".">>, <<"*">>}

\* A decoded document is given to the path derivation: every pack name with
\* one filename and tag list, and the pack names above with every one.
InitPaths ==
    /\ wavs = [n \in Names |-> AbsentFile]
    /\ jsons = [n \in Names |-> AbsentJson]
    /\ library = [t \in Targets |-> AbsentFile]
    /\ catalog = {}
    /\ queue = <<>>
    /\ pc = "recv"
    /\ event = NoEvent
    /\ path_idx = 0
    /\ attempt = 0
    /\ poll_attempts = 0
    /\ hash_attempt = 0
    /\ insert_attempt = 0
    /\ metadata = AbsentJson
    /\ file_hash = NoHash
    /\ error_count = 0
    /\ slept = 0
    /\ outcome = "none"
    /\ last_error = NoError
    /\ drops = 0
    /\ source_size = 0
    /\ moves = [n \in Names |-> 0]
    /\ inserts = [n \in Names |-> 0]
    /\ relocated = FALSE
    /\ json_first = [n \in Names |-> FALSE]
    /\ failures = Untracked
    /\ pending = NoEvent
    /\ \/ /\ pack_name \in Strings
          /\ filename = <<"a", ".", "a">>
          /\ tags = <<"Kick">>
       \/ /\ pack_name \in PackNames
          /\ \E x \in PathInputs : filename = x[1] /\ tags = x[2]
    /\ safe_pack_name = <<>>
    /\ resanitized = <<>>
    /\ library_path = <<>>
    /\ done = {}
    /\ category = NoCategory
    /\ SetUp
    /\ NoStart

watcherVars == <<fsVars, envVars, histVars, localVars, taskVars, failures>>

\* get_library_path: let safe_pack_name = sanitize_filename(pack_name)
Sanitize ==
    /\ "sanitize" \notin done
    /\ safe_pack_name' = sanitize_filename(pack_name)
    /\ done' = done \cup {"sanitize"}
    /\ UNCHANGED <<watcherVars, dirs, startVars, category, pack_name, filename, tags, resanitized, library_path>>

\* sanitize_filename applied to its own output.
SanitizeAgain ==
    /\ "sanitize" \in done
    /\ "again" \notin done
    /\ resanitized' = sanitize_filename(safe_pack_name)
    /\ done' = done \cup {"again"}
    /\ UNCHANGED <<watcherVars, dirs, startVars, category, pack_name, filename, tags, safe_pack_name, library_path>>

\* get_library_path returns library_base/category/safe_pack_name/filename.
GetLibraryPath ==
    /\ "path" \notin done
    /\ library_path' = library_path_of(library_base, tags, pack_name, filename)
    /\ done' = done \cup {"path"}
    /\ UNCHANGED <<watcherVars, dirs, startVars, category, pack_name, filename, tags, safe_pack_name, resanitized>>

NextPaths == Sanitize \/ SanitizeAgain \/ GetLibraryPath
Paths == InitPaths /\ [][NextPaths]_vars

\* ------------------------------------------------------ classification
MaxTags == 3
\* The tag lists of up to MaxTags tags.
TagLists == UNION {[1..n -> Tags] : n \in 0..MaxTags}

\* A decoded document with any tag list is given to get_category.
InitClassify ==
    /\ wavs = [n \in Names |-> AbsentFile]
    /\ jsons = [n \in Names |-> AbsentJson]
    /\ library = [t \in Targets |-> AbsentFile]
    /\ catalog = {}
    /\ queue = <<>>
    /\ pc = "recv"
    /\ event = NoEvent
    /\ path_idx = 0
    /\ attempt = 0
    /\ poll_attempts = 0
    /\ hash_attempt = 0
    /\ insert_attempt = 0
    /\ metadata = AbsentJson
    /\ file_hash = NoHash
    /\ error_count = 0
    /\ slept = 0
    /\ outcome = "none"
    /\ last_error = NoError
    /\ drops = 0
    /\ source_size = 0
    /\ moves = [n \in Names |-> 0]
    /\ inserts = [n \in Names |-> 0]
    /\ relocated = FALSE
    /\ json_first = [n \in Names |-> FALSE]
    /\ failures = Untracked
    /\ pending = NoEvent
    /\ pack_name = <<"a">>
    /\ filename = <<"a", ".", "a">>
    /\ tags \in TagLists
    /\ safe_pack_name = <<>>
    /\ resanitized = <<>>
    /\ library_path = <<>>
    /\ done = {}
    /\ category = NoCategory
    /\ SetUp
    /\ NoStart

\* SampleMetadata::get_category
GetCategory ==
    /\ "category" \notin done
    /\ category' = map_tags_to_category(tags)
    /\ done' = done \cup {"category"}
    /\ UNCHANGED <<watcherVars, dirs, startVars, pack_name, filename, tags, safe_pack_name, resanitized, library_path>>

NextClassify == GetCategory \/ GetLibraryPath
Classify == InitClassify /\ [][NextClassify]_vars

\* ---------------------------------------------------- the catalog alone
\* The hashes a record can carry.
Hashes == {calculate_file_hash(f) : f \in WavFiles}

\* A caller builds a record from a document and a hash and calls insert_sample.
InsertCall(m, h) ==
    /\ pc = "recv"
    /\ queue = <<>>
    /\ metadata' = m
    /\ file_hash' = h
    /\ pc' = "insert"
    /\ UNCHANGED <<fsVars, envVars, histVars, failures, pathVars, startVars, dirs, poll_attempts, hash_attempt, insert_attempt,
                   source_size, event, path_idx, attempt, error_count, slept, outcome, last_error, relocated>>

\* db::insert_sample: Err when the hash is in the table or the INSERT breaks
\* a UNIQUE constraint, and the row is added otherwise.
insert_sample ==
    /\ pc = "insert"
    /\ IF insert_accepts(catalog, record)
       THEN catalog' = catalog \cup {record} /\ last_error' = NoError
       ELSE catalog' = catalog /\ last_error' = "insert_rejected"
    /\ pc' = "recv"
    /\ UNCHANGED <<wavs, jsons, library, envVars, histVars, failures, pathVars, startVars, dirs, localVars,
                   event, path_idx, attempt, error_count, slept, outcome, relocated>>

NextInserts == (\E m \in {Doc(t) : t \in Targets}, h \in Hashes : InsertCall(m, h)) \/ insert_sample
Inserts == Init /\ [][NextInserts]_vars

\* --------------------------------------------------------------- startup
\* watch_directory before its loop: FileWatcher::new ensures the three
\* directories in order, start_watching creates the watcher and starts the
\* watch; each step returns its error with `?`.
EnsurePc == [watch_dir |-> "ensure_watch_dir", library_dir |-> "ensure_library_dir",
             database_parent |-> "ensure_database_parent"]
AfterEnsure == [watch_dir |-> "ensure_library_dir", library_dir |-> "ensure_database_parent",
                database_parent |-> "watcher_new"]
SetupPcs == {"ensure_watch_dir", "ensure_library_dir", "ensure_database_parent", "watcher_new", "watch"}

\* A setup step returns Ok: nothing but the position changes.
SetupOk(next) ==
    /\ pc' = next
    /\ last_error' = NoError
    /\ UNCHANGED <<fsVars, envVars, histVars, localVars, failures, pathVars, startVars, event, path_idx, attempt,
                   error_count, slept, outcome, relocated>>

\* A setup step returns Err: watch_directory returns it.
SetupErr ==
    /\ pc' = "failed"
    /\ last_error' = "setup"
    /\ UNCHANGED <<fsVars, envVars, histVars, localVars, failures, pathVars, startVars, dirs, event, path_idx, attempt,
                   error_count, slept, outcome, relocated>>

\* ensure_directory: the path is a directory, or is absent and create_dir_all
\* creates it.
EnsureDirectory(d) ==
    /\ pc = EnsurePc[d]
    /\ dirs[d] \in {"dir", "absent"}
    /\ dirs' = [dirs EXCEPT ![d] = "dir"]
    /\ SetupOk(AfterEnsure[d])

\* An ensure_directory that goes on when the path is not a directory.
EnsureDirectoryNotDirGoesOn(d) ==
    /\ pc = EnsurePc[d]
    /\ dirs[d] = "file"
    /\ pc' = AfterEnsure[d]
    /\ last_error' = "setup"
    /\ UNCHANGED <<fsVars, envVars, histVars, localVars, failures, pathVars, startVars, dirs, event, path_idx, attempt,
                   error_count, slept, outcome, relocated>>

\* ensure_directory: the path exists but is not a directory.
EnsureDirectoryNotDir(d) ==
    /\ pc = EnsurePc[d]
    /\ dirs[d] = "file"
    /\ SetupErr

\* ensure_directory: the path is absent and create_dir_all fails.
CreateDirFail(d) ==
    /\ pc = EnsurePc[d]
    /\ dirs[d] = "absent"
    /\ SetupErr

\* start_watching: RecommendedWatcher::new returns the watcher.
WatcherNew ==
    /\ pc = "watcher_new"
    /\ SetupOk("watch")
    /\ UNCHANGED dirs

\* start_watching: RecommendedWatcher::new fails.
WatcherNewFail ==
    /\ pc = "watcher_new"
    /\ SetupErr

\* start_watching: watcher.watch succeeds; the loop waits for the first event.
WatchStart ==
    /\ pc = "watch"
    /\ SetupOk("recv")
    /\ UNCHANGED dirs

\* start_watching: watcher.watch fails.
WatchStartFail ==
    /\ pc = "watch"
    /\ SetupErr

Setup ==
    \/ \E d \in DirNames : EnsureDirectory(d)
    \/ \E d \in DirNames : EnsureDirectoryNotDir(d)
    \/ \E d \in DirNames : CreateDirFail(d)
    \/ WatcherNew
    \/ WatcherNewFail
    \/ WatchStart
    \/ WatchStartFail

\* watch_directory is called: the directories are in any state, the watch
\* directory and the library hold what earlier runs left.
InitStartup ==
    /\ wavs \in {[n \in Names |-> AbsentFile], [n \in Names |-> IF n = "a" THEN File(2, 2) ELSE AbsentFile]}
    /\ jsons = [n \in Names |-> AbsentJson]
    /\ \/ /\ library = [t \in Targets |-> AbsentFile]
          /\ catalog = {}
       \/ /\ library = [t \in Targets |-> IF t = "T1" THEN File(1, 2) ELSE AbsentFile]
          /\ catalog = {[file_path |-> "T1", file_hash |-> calculate_file_hash(File(1, 2))]}
    /\ dirs \in [DirNames -> DirStates]
    /\ (\E n \in Names : exists(wavs[n])) => dirs["watch_dir"] = "dir"
    /\ catalog # {} => (dirs["library_dir"] = "dir" /\ dirs["database_parent"] = "dir")
    /\ queue = <<>>
    /\ pc = "ensure_watch_dir"
    /\ event = NoEvent
    /\ path_idx = 0
    /\ attempt = 0
    /\ poll_attempts = 0
    /\ hash_attempt = 0
    /\ insert_attempt = 0
    /\ metadata = AbsentJson
    /\ file_hash = NoHash
    /\ error_count = 0
    /\ slept = 0
    /\ outcome = "none"
    /\ last_error = NoError
    /\ drops = 0
    /\ source_size = 0
    /\ moves = [n \in Names |-> 0]
    /\ inserts = [n \in Names |-> 0]
    /\ relocated = FALSE
    /\ json_first = [n \in Names |-> FALSE]
    /\ failures = Untracked
    /\ pending = NoEvent
    /\ NoDocument
    /\ NoStart

NextStartup == Setup \/ Environment \/ Consumer
Startup == InitStartup /\ [][NextStartup]_vars

\* ------------------------------------------------------- start_daemon
\* The PID of a daemon of an earlier run, and the PID the child of a `start`
\* invocation gets.
OldPid == 9
ChildPid(s) == s

\* signal::kill(pid, None) succeeds.
is_process_running(pid) == pid \in daemons

\* What a step of start_daemon leaves alone.
StartFrame == UNCHANGED <<watcherVars, dirs, pathVars>>

\* start_daemon: read_pid_file.  No PID: on to the spawn.
ReadPidFile(s) ==
    /\ start_pc[s] = "idle"
    /\ seen' = [seen EXCEPT ![s] = pid_file]
    /\ start_pc' = [start_pc EXCEPT ![s] = IF pid_file = NoPid THEN "spawn" ELSE "check"]
    /\ UNCHANGED <<pid_file, daemons, child>>
    /\ StartFrame

\* start_daemon: the process of the PID read is running: return Ok.
AlreadyRunning(s) ==
    /\ start_pc[s] = "check"
    /\ is_process_running(seen[s])
    /\ start_pc' = [start_pc EXCEPT ![s] = "done"]
    /\ UNCHANGED <<pid_file, daemons, child, seen>>
    /\ StartFrame

\* start_daemon: the process of the PID read is not running.
StalePid(s) ==
    /\ start_pc[s] = "check"
    /\ ~is_process_running(seen[s])
    /\ start_pc' = [start_pc EXCEPT ![s] = "remove"]
    /\ UNCHANGED <<pid_file, daemons, child, seen>>
    /\ StartFrame

\* start_daemon: remove_pid_file removes the file that is there.
RemoveStalePidFile(s) ==
    /\ start_pc[s] = "remove"
    /\ pid_file' = NoPid
    /\ start_pc' = [start_pc EXCEPT ![s] = "spawn"]
    /\ UNCHANGED <<daemons, child, seen>>
    /\ StartFrame

\* start_daemon: cmd.spawn() starts the daemon process.
Spawn(s) ==
    /\ start_pc[s] = "spawn"
    /\ child' = [child EXCEPT ![s] = ChildPid(s)]
    /\ daemons' = daemons \cup {ChildPid(s)}
    /\ start_pc' = [start_pc EXCEPT ![s] = "write"]
    /\ UNCHANGED <<pid_file, seen>>
    /\ StartFrame

\* write_pid_file: create_new fails, the file exists: start_daemon returns
\* the error.
WritePidFileExists(s) ==
    /\ start_pc[s] = "write"
    /\ pid_file # NoPid
    /\ start_pc' = [start_pc EXCEPT ![s] = "failed"]
    /\ UNCHANGED <<pid_file, daemons, child, seen>>
    /\ StartFrame

\* write_pid_file: the file is created and holds the PID of the child.
WritePidFile(s) ==
    /\ start_pc[s] = "write"
    /\ pid_file = NoPid
    /\ pid_file' = child[s]
    /\ start_pc' = [start_pc EXCEPT ![s] = "verify"]
    /\ UNCHANGED <<daemons, child, seen>>
    /\ StartFrame

\* start_daemon: after 500 ms the child is running.
VerifyRunning(s) ==
    /\ start_pc[s] = "verify"
    /\ is_process_running(child[s])
    /\ start_pc' = [start_pc EXCEPT ![s] = "done"]
    /\ UNCHANGED <<pid_file, daemons, child, seen>>
    /\ StartFrame

\* start_daemon: after 500 ms the child is gone: remove_pid_file.
VerifyGone(s) ==
    /\ start_pc[s] = "verify"
    /\ ~is_process_running(child[s])
    /\ pid_file' = NoPid
    /\ start_pc' = [start_pc EXCEPT ![s] = "done"]
    /\ UNCHANGED <<daemons, child, seen>>
    /\ StartFrame

\* run_daemon returns: the watcher task ended with a setup error.
DaemonExits(p) ==
    /\ p \in daemons
    /\ daemons' = daemons \ {p}
    /\ UNCHANGED <<pid_file, start_pc, child, seen>>
    /\ StartFrame

\* Two `start` commands are given: there is no PID file, or the file of a
\* daemon that is running, or the file a daemon that is gone has left.
InitStarts ==
    /\ wavs = [n \in Names |-> AbsentFile]
    /\ jsons = [n \in Names |-> AbsentJson]
    /\ library = [t \in Targets |-> AbsentFile]
    /\ catalog = {}
    /\ queue = <<>>
    /\ pc = "recv"
    /\ event = NoEvent
    /\ path_idx = 0
    /\ attempt = 0
    /\ poll_attempts = 0
    /\ hash_attempt = 0
    /\ insert_attempt = 0
    /\ metadata = AbsentJson
    /\ file_hash = NoHash
    /\ error_count = 0
    /\ slept = 0
    /\ outcome = "none"
    /\ last_error = NoError
    /\ drops = 0
    /\ source_size = 0
    /\ moves = [n \in Names |-> 0]
    /\ inserts = [n \in Names |-> 0]
    /\ relocated = FALSE
    /\ json_first = [n \in Names |-> FALSE]
    /\ failures = Untracked
    /\ pending = NoEvent
    /\ NoDocument
    /\ SetUp
    /\ \/ pid_file = NoPid /\ daemons = {}
       \/ pid_file = OldPid /\ daemons = {OldPid}
       \/ pid_file = OldPid /\ daemons = {}
    /\ start_pc = [s \in Starters |-> "idle"]
    /\ child = [s \in Starters |-> NoPid]
    /\ seen = [s \in Starters |-> NoPid]

NextStarts ==
    \/ \E s \in Starters :
          \/ ReadPidFile(s)
          \/ AlreadyRunning(s)
          \/ StalePid(s)
          \/ RemoveStalePidFile(s)
          \/ Spawn(s)
          \/ WritePidFile(s)
          \/ WritePidFileExists(s)
          \/ VerifyRunning(s)
          \/ VerifyGone(s)
    \/ \E p \in {OldPid} \cup {ChildPid(s) : s \in Starters} : DaemonExits(p)
Starts == InitStarts /\ [][NextStarts]_vars

\* ============================================================== claims
\* The handling step that is being taken ends the processing of the path.
EndsPath == pc # "recv" /\ pc' \in {"recv", "handle"} /\ outcome' \notin {"none", "error"}
\* The handling of the event is given up: the last attempt failed.
Abandons == pc # "recv" /\ pc' = "recv" /\ outcome' = "error"
\* The content with hash h is on record.
OnRecord(h) == \E r \in catalog : r.file_hash = h

\* ------------------------------------------------------------------ C1
\* C1: for any sequence of drops and events, the catalog never holds two
\* entries for the same content hash, and when the deduplication gate is
\* reached for a binary whose content is already on record, that step leaves
\* the catalog and the library as they are and removes both files of the unit
\* (binary and metadata) from the watch directory.
C1_OneEntryPerContent ==
    /\ [](\A r1 \in catalog, r2 \in catalog : r1.file_hash = r2.file_hash => r1 = r2)
    /\ [][(pc = "dedup" /\ OnRecord(file_hash))
            => /\ catalog' = catalog
               /\ library' = library
               /\ ~exists(wavs'[name])
               /\ ~exists(jsons'[name])
               /\ outcome' = "duplicate"]_vars

\* A second copy of a content on record has been handled as a duplicate.
C1_DuplicateHandled ==
    /\ outcome = "duplicate"
    /\ Cardinality(catalog) = 1
    /\ \A n \in Names : ~exists(wavs[n])

\* ------------------------------------------------------------------ C2
\* A copy of the content f is on disk, in the watch directory or the library.
OnDisk(f) == (\E n \in Names : wavs[n] = f) \/ (\E t \in Targets : library[t] = f)

\* C2: a binary is never lost: whatever the pipeline does, the content of
\* every binary that is on disk (dropped and not yet moved, or in the library)
\* is still on disk after the step.
C2_NeverLost ==
    [][\A f \in WavFiles : (exists(f) /\ OnDisk(f)) => OnDisk(f)']_vars

\* ------------------------------------------------------------------ C3
\* C3: every catalog entry's recorded path holds a file.
C3_EntryFileExists == \A r \in catalog : exists(library[r.file_path])

\* ------------------------------------------------------------------ C4
\* C4: when the ingestion of a unit returns success on the non-duplicate path,
\* the source path no longer exists, the target path exists, and the target's
\* size is the size the source had before the move; the move itself removes
\* the source and leaves at the target a file of the source's size.
C4_MovePostconditions ==
    /\ [][(pc = "move" /\ pc' = "insert")
            => /\ source_size' = wavs[name].len
               /\ ~exists(wavs'[name])
               /\ exists(library'[get_library_path(metadata)])
               /\ library'[get_library_path(metadata)].len = wavs[name].len]_vars
    /\ [][(EndsPath /\ outcome' = "ingested")
            => /\ ~exists(wavs'[name])
               /\ exists(library'[get_library_path(metadata)])
               /\ library'[get_library_path(metadata)].len = source_size]_vars

\* A unit has been ingested: its binary is in the library under the path on record.
C4_Ingested ==
    /\ outcome = "ingested"
    /\ \E r \in catalog : library[r.file_path] = File(2, 2)

\* ------------------------------------------------------------------ C5
\* C5 as stated: a unit that is abandoned still has its source binary and
\* its metadata in place: the handling that is given up has relocated nothing
\* and its last step takes no file out of the watch directory.
C5_AbandonedKeepsFiles ==
    [][Abandons => (~relocated /\ wavs' = wavs /\ jsons' = jsons)]_vars

\* C5, amended: the step that gives a handling up takes no file out of the
\* watch directory and leaves the catalog as it is; a step takes a binary out
\* of the watch directory only as a confirmed duplicate or by relocating it
\* (the content is then at the target path); a step takes a metadata file out
\* only as a confirmed duplicate or after the unit's row is in the catalog.  So
\* a unit abandoned before its relocation completed has both files in place,
\* and one abandoned after it has its binary in the library and its metadata
\* in place.
C5_AbandonedBeforeRelocation ==
    /\ [][Abandons => (wavs' = wavs /\ jsons' = jsons /\ catalog' = catalog)]_vars
    /\ [][\A n \in Names : (exists(wavs[n]) /\ ~exists(wavs'[n]))
            => \/ outcome' = "duplicate" /\ OnRecord(file_hash)
               \/ /\ relocated'
                  /\ library'[get_library_path(metadata)] = wavs[n]
                  /\ jsons' = jsons]_vars
    /\ [][\A n \in Names : (exists(jsons[n]) /\ ~exists(jsons'[n]))
            => \/ outcome' = "duplicate" /\ OnRecord(file_hash)
               \/ outcome' = "ingested" /\ record \in catalog]_vars

\* A unit has been abandoned with both of its files in place.
C5_AbandonedInPlace ==
    /\ pc = "recv"
    /\ outcome = "error"
    /\ \E n \in Names : exists(wavs[n]) /\ exists(jsons[n])

\* ------------------------------------------------------------------ C6
\* C6: whenever the hash of a unit's binary is already in the catalog when the
\* deduplication gate is reached, the unit is a duplicate: nothing is
\* relocated, nothing is recorded, both files of the unit are removed from the
\* watch directory, and the handling ends as a normal outcome.
C6_DuplicateDiscarded ==
    [][(pc = "dedup" /\ OnRecord(file_hash))
         => /\ EndsPath
            /\ outcome' = "duplicate"
            /\ UNCHANGED <<library, catalog, moves, inserts>>
            /\ wavs' = [wavs EXCEPT ![name] = AbsentFile]
            /\ jsons' = [jsons EXCEPT ![name] = AbsentJson]]_vars

\* ------------------------------------------------------------------ C7
\* C7: the metadata's event was handled before the binary existed; when the
\* binary's event is then handled with the metadata in place, the handling
\* ends in the ingestion of the pair with exactly one relocation and one
\* catalog insert, unless the content is already on record (duplicate) or the
\* handling fails on an invalid file or on the catalog's refusal of the row;
\* and whatever events follow, a binary is relocated and recorded at most once.
C7_JsonFirstIngestedOnce ==
    /\ [](\A n \in Names : moves[n] <= 1 /\ inserts[n] <= moves[n])
    /\ [][(/\ pc # "recv" /\ pc' = "recv"
           /\ event.kind \in {"Create", "Modify"}
           /\ cur.ext = "wav"
           /\ json_first[name])
            => \/ outcome' = "ingested" /\ moves'[name] = 1 /\ inserts'[name] = 1
               \/ outcome' = "duplicate" /\ OnRecord(file_hash)
               \/ /\ outcome' = "error"
                  /\ \/ ~validate_file(wavs[name])
                     \/ ~from_file(jsons[name])
                     \/ relocated /\ ~insert_accepts(catalog, record)]_vars

\* The metadata was handled first, and the pair has been ingested by the
\* binary's event.
C7_JsonFirstIngested ==
    /\ outcome = "ingested"
    /\ \E n \in Names : moves[n] = 1 /\ inserts[n] = 1 /\ ~exists(jsons[n])
    /\ error_count = 0
    /\ queue = <<>>
    /\ drops = 2

\* ------------------------------------------------------------------ C8
\* C8: while the binary's handling waits for a sibling that is not there,
\* nothing changes on disk or in the catalog, and when the wait ends without
\* the sibling the outcome is "orphaned", after the whole window, with the
\* binary, the library and the catalog as they were.
C8_OrphanUntouched ==
    [][(pc = "poll" /\ ~exists(jsons[name]) /\ drops' = drops)
         => /\ UNCHANGED <<wavs, jsons, library, catalog, moves, inserts>>
            /\ pc' # "poll" => (outcome' = "orphaned" /\ poll_attempts = PollMax
                                  /\ error_count' <= error_count)]_vars

\* A binary has been handled as an orphan and is still in the watch directory.
C8_Orphaned ==
    /\ outcome = "orphaned"
    /\ \E n \in Names : validate_file(wavs[n]) /\ ~exists(jsons[n])

\* ------------------------------------------------------------------ C9
\* C9: whichever file's event is handled, process_sample_pair is entered iff
\* both files of the base name exist when the handler looks, and it works on
\* the binary and the metadata of that base name; an event handled when the
\* binary is not in the watch directory changes neither the library nor the
\* catalog, and no binary is relocated or recorded twice.
C9_PairingSymmetric ==
    /\ [][(pc # "pair" /\ pc' = "pair") => (exists(wavs[name]) /\ exists(jsons[name]))]_vars
    /\ [][(/\ pc = "handle" /\ drops' = drops
           /\ event.kind \in {"Create", "Modify"} /\ cur.ext = "json"
           /\ validate_file(jsons[name]))
            => (pc' = "pair" <=> exists(wavs[name]))]_vars
    /\ [][(pc = "poll" /\ drops' = drops)
            => (pc' = "pair" <=> exists(jsons[name]))]_vars
    /\ [][(pc = "pair" /\ pc' = "hash") => metadata' = jsons[name]]_vars
    /\ [][(pc = "hash" /\ pc' = "dedup") => file_hash' = calculate_file_hash(wavs[name])]_vars
    /\ [][(pc = "handle" /\ drops' = drops /\ cur.ext \in {"wav", "json"} /\ ~exists(wavs[name]))
            => (pc' \in {"recv", "handle"} /\ UNCHANGED <<wavs, jsons, library, catalog, moves, inserts>>)]_vars
    /\ [](\A n \in Names : moves[n] <= 1 /\ inserts[n] <= 1)

\* The pair is being ingested on the metadata's event.
C9_PairedByJson ==
    /\ pc = "cleanup"
    /\ cur.ext = "json"
    /\ record \in catalog

\* ----------------------------------------------------------------- C10
\* C10: the wait for the sibling sleeps 500 ms between polls and at most 10
\* times; it goes on to the pair as soon as a poll finds the sibling, and it
\* never sleeps an 11th time.
C10_PollWindow ==
    /\ PollMs = 500 /\ PollMax = 10
    /\ [](poll_attempts <= PollMax)
    /\ [][poll_attempts' > poll_attempts
            => /\ pc = "poll" /\ pc' = "poll"
               /\ poll_attempts' = poll_attempts + 1
               /\ poll_attempts < PollMax
               /\ ~exists(jsons[name])
               /\ slept' = PollMs]_vars
    /\ [][(pc = "poll" /\ exists(jsons[name]) /\ drops' = drops) => pc' = "pair"]_vars

\* The sibling was found by the look after the 10th sleep.
C10_FoundAtLastPoll ==
    /\ pc = "pair"
    /\ cur.ext = "wav"
    /\ poll_attempts = PollMax

\* ----------------------------------------------------------------- C11
\* The steps of process_sample_pair after its validation.
Processing == pc \in {"hash", "dedup", "move", "insert", "cleanup"}

\* C11: the handling of a pair goes past validation only if both files exist,
\* are files and are not empty; while it decodes, hashes, looks up and
\* relocates, both files are the valid files it checked; and if one of the two
\* checks fails, the attempt ends in the error of validate_file with the
\* watch directory, the library and the catalog as they were.
C11_ValidatedBeforeProcessing ==
    /\ [][(~Processing /\ Processing')
            => (pc = "pair" /\ validate_file(wavs[name]) /\ validate_file(jsons[name]))]_vars
    /\ [](pc \in {"hash", "dedup", "move"}
            => (validate_file(wavs[name]) /\ validate_file(jsons[name]) /\ metadata = jsons[name]))
    /\ [][(pc = "pair" /\ ~(validate_file(wavs[name]) /\ validate_file(jsons[name])))
            => /\ outcome' = "error"
               /\ last_error' = "invalid_file"
               /\ ~Processing'
               /\ UNCHANGED <<wavs, jsons, library, catalog, moves, inserts>>]_vars

\* The pair of an empty binary and a valid metadata file has just failed
\* validation in process_sample_pair.
C11_PairRejected ==
    /\ last_error = "invalid_file"
    /\ pc = "handle"
    /\ cur.ext = "json"
    /\ exists(wavs[name])
    /\ validate_file(jsons[name])

ValidationErrors == {"invalid_file", "parse"}

\* C13: an attempt that fails with a validation error (a missing or empty
\* file, metadata that does not decode) is the event's first and only attempt:
\* the event is given up in that step and the consumer is back in recv.
C13_ValidationNotRetried ==
    [][last_error' \in ValidationErrors => (attempt = 1 /\ pc' = "recv")]_vars

\* ----------------------------------------------------------------- C14
\* The outcomes with which handle_event returns Ok.
OkOutcomes == {"ignored", "orphaned", "waiting", "duplicate", "ingested"}

\* C14: the handling of an event, the hash and the insert are each attempted
\* at most 3 times.  A failed attempt before the third is followed by the next
\* attempt; the third failed attempt returns its error; a successful attempt
\* returns at once, with no further attempt.
C14_AtMostThreeAttempts ==
    /\ [](attempt <= RetryAttempts /\ hash_attempt <= HashAttempts /\ insert_attempt <= InsertAttempts)
    /\ [][outcome' = "error" /\ last_error' # NoError /\ pc # "hash" /\ pc # "insert"
            => IF attempt < RetryAttempts
               THEN pc' = "handle" /\ attempt' = attempt + 1 /\ event' = event
               ELSE pc' = "recv" /\ attempt' = 0 /\ event' = NoEvent]_vars
    /\ [][(pc' = "recv" /\ pc # "recv" /\ outcome' \in OkOutcomes)
            => (attempt' = 0 /\ event' = NoEvent /\ last_error' = NoError)]_vars
    /\ [][pc = "hash"
            => \/ pc' = "hash" /\ hash_attempt < HashAttempts /\ hash_attempt' = hash_attempt + 1
                  /\ last_error' = "hash" /\ file_hash' = NoHash
               \/ pc' = "dedup" /\ last_error' = NoError /\ hash_attempt' = hash_attempt
                  /\ file_hash' = calculate_file_hash(wavs[name])
               \/ hash_attempt = HashAttempts /\ last_error' = "hash" /\ outcome' = "error"
                  /\ pc' \in {"handle", "recv"}]_vars
    /\ [][pc = "insert"
            => \/ pc' = "insert" /\ insert_attempt < InsertAttempts /\ insert_attempt' = insert_attempt + 1
                  /\ last_error' \in {"insert_io", "insert_rejected"} /\ catalog' = catalog
               \/ pc' = "cleanup" /\ last_error' = NoError /\ insert_attempt' = insert_attempt
                  /\ catalog' = catalog \cup {record}
               \/ insert_attempt = InsertAttempts /\ last_error' \in {"insert_io", "insert_rejected"}
                  /\ outcome' = "error" /\ pc' \in {"handle", "recv"}]_vars

\* The hash failed in every attempt of every attempt of an event: the event
\* has just been given up with the error of its last attempt.
C14_GivenUpAfterThree ==
    /\ pc = "recv"
    /\ outcome = "error"
    /\ last_error = "hash"
    /\ error_count = 1

\* ----------------------------------------------------------------- C15
\* The wait the spec gives for the retry after failed attempt n.
ExponentialBackoff(n) == BackoffBaseMs * (2 ^ (n - 1))

\* C15: after failed attempt n = 1, 2 of the event handling, of the hash and of
\* the insert, the wait is 1000 ms * 2^(n-1); after the last attempt there is
\* no retry wait.
C15_BackoffDoubles ==
    /\ [][(outcome' = "error" /\ attempt' = attempt + 1) => slept' = ExponentialBackoff(attempt)]_vars
    /\ [][(pc = "hash" /\ hash_attempt' = hash_attempt + 1) => slept' = ExponentialBackoff(hash_attempt)]_vars
    /\ [][(pc = "insert" /\ insert_attempt' = insert_attempt + 1)
            => slept' = ExponentialBackoff(insert_attempt)]_vars
    /\ [][(outcome' = "error" /\ pc' = "recv") => slept' \in {0, PauseMs}]_vars

Succeeds == pc # "recv" /\ pc' = "recv" /\ outcome' \in OkOutcomes

C18_OneEventInFlight ==
    /\ [](pc = "recv" <=> event = NoEvent)
    /\ [][Len(queue') < Len(queue) => (pc = "recv" /\ event = NoEvent /\ event' = Head(queue))]_vars
    /\ [][(event # NoEvent /\ event' # event) => (event' = NoEvent /\ pc' = "recv")]_vars
    /\ [](pc = "recv" => (attempt = 0 /\ metadata = AbsentJson /\ file_hash = NoHash))

\* An event is being retried after a backoff sleep while the next event waits
\* in the channel.
C18_NextEventWaits ==
    /\ pc = "handle"
    /\ attempt = 2
    /\ slept = BackoffBaseMs
    /\ queue # <<>>

\* ----------------------------------------------------------------- C19
\* C19: the channel is first in, first out and only the watch mechanism adds
\* to it: a delivery appends the event behind those waiting, the consumer
\* takes the oldest, and no step of the handling (a failed or a retried
\* attempt included) changes the channel.
C19_ArrivalOrder ==
    /\ [][drops' = drops + 1
            => /\ Len(queue') = Len(queue) + 1
               /\ SubSeq(queue', 1, Len(queue)) = queue]_vars
    /\ [][(pc = "recv" /\ pc' = "handle") => (event' = Head(queue) /\ queue' = Tail(queue))]_vars
    /\ [][queue' # queue => (drops' = drops + 1 \/ (pc = "recv" /\ pc' = "handle"))]_vars
    /\ [][outcome' = "error" => queue' = queue]_vars

\* The event at the head of the channel was given up after its retries; the
\* two events delivered behind it are still in the channel, in their order.
C19_GivenUpNotRequeued ==
    /\ pc = "recv"
    /\ outcome = "error"
    /\ Len(queue) = 2
    /\ queue[1] # queue[2]

\* ----------------------------------------------------------------- C20
\* The consumer is suspended: in the pairing poll, in the backoff sleep before
\* a further attempt, or in the pause after the event it gave up.
Suspended ==
    \/ pc = "poll"
    \/ pc = "handle" /\ attempt > 1
    \/ pc = "recv" /\ slept = PauseMs

\* C20 as stated: while the consumer is suspended, the producer is not blocked
\* in its send.
C20_ProducerNeverBlocked == Suspended => pending = NoEvent

\* C20, amended: the channel never holds more than 100 events; while it holds
\* fewer, the producer's event is enqueued in the step that delivers it,
\* wherever the consumer is; the producer's send blocks only when the channel
\* holds 100 events, and the blocked event is enqueued, behind the waiting
\* ones, once the consumer has taken an event.
C20_BlockedOnlyWhenFull ==
    /\ [](Len(queue) <= ChannelCap)
    /\ [][(drops' = drops + 1 /\ Len(queue) < ChannelCap)
            => (Len(queue') = Len(queue) + 1 /\ pending' = NoEvent)]_vars
    /\ [][(pending = NoEvent /\ pending' # NoEvent)
            => (Len(queue) = ChannelCap /\ queue' = queue)]_vars
    /\ [][(pending # NoEvent /\ pending' # pending)
            => (Len(queue) < ChannelCap /\ pending' = NoEvent /\ queue' = Append(queue, pending))]_vars

\* The consumer is in its pairing poll, the channel holds 100 events and the
\* producer is blocked on the next one.
C20_BlockedOnFullChannel ==
    /\ pc = "poll"
    /\ poll_attempts > 0
    /\ Len(queue) = ChannelCap
    /\ pending = BurstEvent

\* ----------------------------------------------------------------- C21
\* C21: an error of the watch changes nothing but the log; an event that is
\* given up leaves the consumer in recv, with the channel as it was; and
\* whenever events wait in the channel, the consumer comes back to recv with
\* the channel drained: every event delivered is dequeued and handled, before
\* and after any error.
C21_PipelineKeepsRunning ==
    /\ [][last_error' = "watch_error"
            => UNCHANGED <<fsVars, queue, pending, pc, event, path_idx, attempt, error_count, localVars>>]_vars
    /\ [][Abandons => (pc' = "recv" /\ queue' = queue)]_vars
    /\ [](pc \in {"recv", "handle", "poll", "pair", "hash", "dedup", "move", "insert", "cleanup"})
    /\ (queue # <<>>) ~> (pc = "recv" /\ queue = <<>>)
    /\ (last_error = "watch_error") ~> (pc = "recv" /\ queue = <<>>)

\* An event has been given up, the watch has just reported an error, and a
\* further event waits in the channel.
C21_ErrorsThenEvent ==
    /\ last_error = "watch_error"
    /\ error_count > 0
    /\ queue # <<>>

\* ----------------------------------------------------------------- C22
\* An attempt at the event in hand fails in the step being taken.
AttemptFails ==
    /\ last_error' \notin {NoError, "watch_error"}
    /\ (attempt' = attempt + 1 \/ Abandons)

\* C22: when the processing of one path of an event fails, the paths that
\* the event carries behind it are units of their own and are not left
\* unprocessed: an attempt fails only at the last path of its event.
C22_OtherPathsProcessed ==
    [][AttemptFails => path_idx = Len(event.paths)]_vars

\* ----------------------------------------------------------------- C23
\* C23: the pipeline is stopped only between the steps of its processing:
\* not inside the relocation, which would leave a part of the file at the
\* target, and not between the relocation of a binary and its insert.
C23_StopsBetweenSteps ==
    [][pc' = "stopped"
         => /\ pc \notin {"move", "insert"}
            /\ ~relocated
            /\ UNCHANGED fsVars]_vars

\* ----------------------------------------------------------------- C24
\* C24: sanitize_filename applied to its own output returns that output, for
\* every name.
C24_SanitizeIdempotent ==
    /\ sanitize_filename(sanitize_filename(pack_name)) = sanitize_filename(pack_name)
    /\ "again" \in done => resanitized = safe_pack_name

\* A name of full length that sanitize_filename changed has been sanitized
\* twice.
C24_SanitizedTwice ==
    /\ "again" \in done
    /\ Len(pack_name) = MaxLen
    /\ safe_pack_name # pack_name
    /\ safe_pack_name # <<>>

\* ----------------------------------------------------------------- C25
\* The characters the output of sanitize_filename must not contain.
Problematic == {"/", "\\", ":", "*", "?", "\"", "<", ">"}

\* C25: the output of sanitize_filename contains none of / \ : * ? " < >, no
\* control character, and neither starts nor ends with whitespace.
C25_SanitizedIsClean ==
    "sanitize" \in done
        => /\ \A i \in 1..Len(safe_pack_name) :
                  safe_pack_name[i] \notin Problematic /\ ~is_control(safe_pack_name[i])
           /\ safe_pack_name # <<>>
                  => (~is_whitespace(Head(safe_pack_name))
                      /\ ~is_whitespace(safe_pack_name[Len(safe_pack_name)]))

\* A name that starts with whitespace and holds a control character and a
\* separator has been sanitized.
C25_DirtyNameSanitized ==
    /\ "sanitize" \in done
    /\ pack_name = <<" ", "TAB", "/">>
    /\ safe_pack_name = <<"_", "-">>

\* ----------------------------------------------------------------- C26
\* A name that a directory entry of the target filesystem can have.
LegalName(c) == c # <<>> /\ \A i \in 1..Len(c) : c[i] \notin {"/", "NUL"}

\* C26: the path get_library_path returns is the library root followed by
\* exactly three components: the category of the tags, the sanitized pack
\* name and the filename; and each of them is a legal name.
C26_PathUnderLibrary ==
    "path" \in done
        => /\ library_path
                = library_base \o <<<<map_tags_to_category(tags)>>, sanitize_filename(pack_name), filename>>
           /\ \A i \in 1..Len(library_path) : i > 1 => LegalName(library_path[i])

\* ------------------------------------------------------------------ C27
\* The steps of process_sample_pair that hold the computed hash.
HoldsHash == {"dedup", "move", "insert"}

\* C27: the file_hash of every row the pipeline inserts is the hash that
\* calculate_file_hash computed from the bytes of the binary in the same
\* attempt: the deduplication step is entered only from the hashing step,
\* which sets it from the file, and it is kept until the insert.  The
\* file_hash field of the metadata document is not what is stored, and a unit
\* is discarded as a duplicate only when the computed hash is on record,
\* whatever the document says.
C27_HashComputedNotTrusted ==
    [][/\ (pc' = "dedup" /\ pc # "dedup")
          => (pc = "hash" /\ file_hash' = calculate_file_hash(wavs[name]))
       /\ (pc \in HoldsHash /\ pc' \in HoldsHash) => file_hash' = file_hash
       /\ catalog' # catalog
          => (/\ pc = "insert"
              /\ \E r \in catalog' \ catalog : (catalog' = catalog \cup {r} /\ r.file_hash = file_hash))
       /\ (pc = "dedup" /\ EndsPath) => OnRecord(file_hash)]_vars

\* A row was inserted for a binary whose hash is not the one its metadata
\* document carries: the row holds the computed hash.
C27_RowHoldsComputedHash ==
    /\ pc = "cleanup"
    /\ metadata.file_hash # file_hash
    /\ \E r \in catalog : r.file_hash = file_hash /\ r.file_path = get_library_path(metadata)
    /\ ~OnRecord(metadata.file_hash)

\* ------------------------------------------------------------------ C28
\* C28: no step of the watcher updates or deletes a row of the catalog: in
\* every step each row is kept with the fields it has, and at most one row is
\* added, by an insert.
C28_CatalogOnlyGrows ==
    [][/\ catalog \subseteq catalog'
       /\ Cardinality(catalog' \ catalog) <= 1
       /\ catalog' # catalog => pc = "insert"]_vars

\* A row is on record and a later insert that conflicts with it was refused.
C28_RowSurvivesRefusedInsert ==
    /\ pc = "insert"
    /\ last_error = "insert_rejected"
    /\ \E r \in catalog : r.file_path = record.file_path /\ r.file_hash # record.file_hash

\* ------------------------------------------------------------------ C29
\* C29: an insert_sample of a record whose file_hash is in the table returns
\* an error and leaves the table as it is, so that, whatever records are
\* inserted in whatever order, no two rows of the table have the same
\* file_hash.
C29_InsertRefusesKnownHash ==
    /\ [](\A r \in catalog, q \in catalog : r.file_hash = q.file_hash => r.file_path = q.file_path)
    /\ [][(pc = "insert" /\ OnRecord(record.file_hash))
          => (catalog' = catalog /\ last_error' = "insert_rejected" /\ pc' = "recv")]_vars

\* A record with a hash on record and a path that is free was refused, and
\* the table holds the row it held.
C29_KnownHashRefused ==
    /\ pc = "recv"
    /\ last_error = "insert_rejected"
    /\ OnRecord(record.file_hash)
    /\ \A r \in catalog : r.file_path # record.file_path

\* ------------------------------------------------------------------ C30
\* A step that moves within the setup, into the loop, or out with the error.
SetupStepOnly == pc' \in (SetupPcs \cup {"recv", "failed"})

\* C30: a setup step changes no file of the watch directory or the library
\* and no row of the catalog, and consumes no event; when the path of one of
\* the three directories exists and is not a directory, and whenever a setup
\* step fails (a directory that cannot be created, a watcher that cannot be
\* created, a watch that cannot be started), watch_directory returns the
\* error: it takes no further step, and no event has been received.
C30_SetupErrorsAbort ==
    /\ [][(pc \in SetupPcs) => (SetupStepOnly /\ UNCHANGED <<fsVars, histVars, queue, event>>)]_vars
    /\ [][(\E d \in DirNames : pc = EnsurePc[d] /\ dirs[d] = "file") => pc' = "failed"]_vars
    /\ [][last_error' = "setup" => (pc \in SetupPcs /\ pc' = "failed")]_vars
    /\ [][pc # "failed"]_vars
    /\ [](pc = "failed" => (/\ event = NoEvent
                            /\ outcome = "none"
                            /\ \A n \in Names : moves[n] = 0 /\ inserts[n] = 0))

\* The library path holds a file: startup was abandoned at that step, and the
\* binary an earlier run left in the watch directory is where it was.
C30_AbortedOnLibraryDir ==
    /\ pc = "failed"
    /\ last_error = "setup"
    /\ dirs["watch_dir"] = "dir"
    /\ dirs["library_dir"] = "file"
    /\ wavs["a"] = File(2, 2)
    /\ queue = <<>>

\* ------------------------------------------------------------------ C31
\* The step is a cleanup that leaves a file it was to delete: the metadata
\* file after the insert, or the binary or the metadata file of a duplicate.
CleanupLeavesFile ==
    \/ pc = "cleanup" /\ pc' # "cleanup" /\ exists(jsons'[name])
    \/ pc = "dedup" /\ pc' \notin {"dedup", "move"} /\ (exists(wavs'[name]) \/ exists(jsons'[name]))

\* C31: a cleanup whose remove_file fails ends the processing of the path
\* with the outcome of a success (ingested, duplicate): no error is recorded,
\* the attempt of the event is not counted as failed and no backoff is slept,
\* the error counter does not grow, and the catalog is left as it is.
C31_CleanupFailureNotEscalated ==
    [][CleanupLeavesFile
       => (/\ EndsPath
           /\ outcome' = (IF pc = "cleanup" THEN "ingested" ELSE "duplicate")
           /\ last_error' = NoError
           /\ attempt' \in {attempt, 0}
           /\ slept' = 0
           /\ error_count' <= error_count
           /\ catalog' = catalog)]_vars

\* A unit was ingested and its metadata file could not be deleted: the event
\* has ended as a success with the file left in the watch directory.
C31_IngestedWithLeftover ==
    /\ pc = "recv"
    /\ outcome = "ingested"
    /\ error_count = 0
    /\ \E n \in Names : exists(jsons[n]) /\ ~exists(wavs[n]) /\ inserts[n] = 1

\* ------------------------------------------------------------------ C32
\* The positions of the tags that an arm of the table matches once lower-cased.
Matching(ts) == {i \in DOMAIN ts : rule(to_lowercase(ts[i])) # NoCategory}
\* The least position of a non-empty set of positions.
First(S) == CHOOSE i \in S : \A j \in S : i <= j

\* C32: the category get_category returns is the one the table gives the
\* first tag of the list, in list order, that matches an arm once lower-cased;
\* it is Unknown exactly when no tag matches; and every tag list that differs
\* from this one in the letter case of its tags only has the same category.
C32_FirstMatchCaseFolded ==
    "category" \in done
    => /\ category = (IF Matching(tags) = {} THEN "Unknown"
                      ELSE rule(to_lowercase(tags[First(Matching(tags))])))
       /\ (category = "Unknown") <=> (Matching(tags) = {})
       /\ \A ts \in [DOMAIN tags -> Tags] : (tags_lower(ts) = tags_lower(tags)) => (map_tags_to_category(ts) = category)

\* A list whose second and third tags match different arms, the second in
\* upper case: its category is that of the second tag.
C32_SecondTagDecides ==
    /\ "category" \in done
    /\ tags = <<"misc", "KICK", "piano">>
    /\ category = "Kick"

\* ------------------------------------------------------------------ C33
\* insert_sample_with_retry returns its error: the last attempt has failed.
InsertGivesUp == pc = "insert" /\ pc' \notin {"insert", "cleanup"}

\* C33: when insert_sample_with_retry gives up after the relocation, the
\* binary is at the target path, the source binary is gone, the catalog has
\* no row with its hash and the metadata file is still in the watch
\* directory; and an insert that succeeds, then or in a later ingestion of
\* the same content, leaves exactly one row with that hash.
C33_RelocatedNotCataloged ==
    /\ [][InsertGivesUp
          => (/\ exists(library'[get_library_path(metadata)])
              /\ calculate_file_hash(library'[get_library_path(metadata)]) = file_hash
              /\ ~exists(wavs'[name])
              /\ \A r \in catalog' : r.file_hash # file_hash
              /\ exists(jsons'[name]))]_vars
    /\ [][catalog' # catalog => Cardinality({r \in catalog' : r.file_hash = file_hash}) = 1]_vars

\* ------------------------------------------------------------------ C34
\* C34: in every reachable state the file at the file_path of every row of
\* the catalog has the bytes whose hash the row records.
C34_EntryContentMatches ==
    \A r \in catalog : (/\ exists(library[r.file_path])
                        /\ calculate_file_hash(library[r.file_path]) = r.file_hash)

\* ------------------------------------------------------------------ C35
\* The directory a path names once its "." and ".." components are resolved
\* from the root, as the filesystem resolves them when the pipeline creates
\* the parent directories and copies the binary.
RECURSIVE resolve(_, _)
resolve(p, at) ==
    IF p = <<>> THEN at
    ELSE IF Head(p) = <<".">> THEN resolve(Tail(p), at)
    ELSE IF Head(p) = <<".", ".">>
         THEN resolve(Tail(p), IF Len(at) > 1 THEN SubSeq(at, 1, Len(at) - 1) ELSE at)
    ELSE resolve(Tail(p), Append(at, Head(p)))

\* The path names something strictly inside the library root.
InsideLibrary(p) ==
    /\ Len(resolve(p, <<>>)) > Len(library_base)
    /\ SubSeq(resolve(p, <<>>), 1, Len(library_base)) = library_base

\* C35: for every metadata document the path get_library_path returns has
\* exactly three components below the library root and names a file strictly
\* inside the library root.
C35_PathInsideLibrary ==
    "path" \in done
        => /\ Len(library_path) = Len(library_base) + 3
           /\ InsideLibrary(library_path)

\* ------------------------------------------------------------------ C36
\* C36: process_sample_pair goes on from the lookup to the relocation, and
\* writes to the library or removes a file of the watch directory after it,
\* only when the lookup reported no row for the hash: the hash is not on
\* record then.
C36_RelocatedOnlyAfterLookup ==
    [][((pc = "dedup" /\ pc' = "move") \/ (pc = "move" /\ (library' # library \/ wavs' # wavs)))
       => ~OnRecord(file_hash)]_vars

\* ------------------------------------------------------------------ C37
\* The two drops so far are the binary and the metadata of one unit, and the
\* unit has been ingested.
PairIngested == drops = 2 /\ \E n \in Names : inserts[n] = 1 /\ moves[n] = 1

\* C37: when the two files of a unit have been dropped and the unit has been
\* ingested, the handling of its two events has counted no error and is in
\* no attempt after the first: neither event was retried.
C37_PairIsNoFailure == PairIngested => (error_count = 0 /\ attempt <= 1 /\ outcome # "error")

\* ------------------------------------------------------------------ C38
\* C38: the handling of an event makes at most 3 attempts, each with at most
\* 10 polls for the sibling, 3 attempts at the hash and 3 at the insert; when
\* the consumer keeps being scheduled, a handling that has started comes back
\* to recv, having ended with a success or with its last error, and every
\* event that waits in the channel is taken out of it.
C38_HandlingTerminates ==
    /\ [](/\ attempt <= RetryAttempts
          /\ poll_attempts <= PollMax
          /\ hash_attempt <= HashAttempts
          /\ insert_attempt <= InsertAttempts)
    /\ [][(pc # "recv" /\ pc' = "recv") => (outcome' \in OkOutcomes \cup {"error"} /\ event' = NoEvent)]_vars
    /\ (pc # "recv") ~> (pc = "recv")
    /\ \A n \in 1..MaxDrops : (Len(queue) = n) ~> (Len(queue) < n)

\* The third attempt at an event is at its third attempt to insert, after ten
\* polls for the sibling in an earlier attempt have been counted.
C38_LastAttemptOfLast ==
    /\ pc = "insert"
    /\ attempt = RetryAttempts
    /\ insert_attempt = InsertAttempts
    /\ last_error \in {"insert_io", "insert_rejected"}

\* ------------------------------------------------------------------ C39
\* Every `start` command has returned.
StartsReturned == \A s \in Starters : start_pc[s] \in {"done", "failed"}

\* C39: when every `start` command has returned, at most one daemon process
\* is running, and the PID file holds the PID of every daemon process that
\* is running.
C39_SingleInstance ==
    StartsReturned => (Cardinality(daemons) <= 1 /\ \A p \in daemons : pid_file = p)

====
